---- MODULE Spec2Model ----
(***************************************************************************)
(* The Cycles tile manager (intern/cycles/render/tile.cpp, tile.h) as a    *)
(* state machine: tile generation, per-device queues, and the per-tile      *)
(* RENDER -> RENDERED -> DENOISE -> DENOISED -> DONE lifecycle driven by    *)
(* next_tile and return_tile.                                               *)
(***************************************************************************)
EXTENDS Integers, Sequences, FiniteSets, TLC

(* ------------------------------------------------------------------ *)
(* Bounds of the model.                                                 *)
(* ------------------------------------------------------------------ *)
\* params.width is drawn from 1..MaxWidth, params.height from 1..MaxHeight.
MaxWidth == 3
MaxHeight == 3
\* tile_size is drawn from the squares of side 1..MaxTileSize.
MaxTileSize == 2
\* num_devices is drawn from 1..MaxDevices.
MaxDevices == 2
\* A worker holds at most this many tiles at a time.
MaxHeld == 1
\* num_samples: a progressive render runs this many tile generations.
NumSamples == 2
\* In the 3x3 grid scenario the single worker holds up to this many tiles.
MaxHeldGrid == 9
\* In the tile order scenario num_devices is drawn from 1..MaxDevicesOrders.
MaxDevicesOrders == 3
\* With the careless caller params.width and params.height are drawn from
\* 1..MaxSideCareless, one tile per pixel.
MaxSideCareless == 2
\* In the empty image scenario params.width and params.height are drawn from
\* 0..MaxSideEmpty.
MaxSideEmpty == 2

\* The diagonals kernel_filter_construct_transform is given: every diagonal
\* of zeros and ones, and every diagonal of EigenHead values followed by a
\* constant tail.
EigenHead == 4

\* The curves walked have a side of 2^k tiles, k in 0..MaxHilbertLog.
MaxHilbertLog == 4

\* In the start resolution scenario params.width and params.height are drawn
\* from 1..MaxSideDivider and a limited start_resolution from
\* 1..MaxStartDivider.
MaxSideDivider == 12
MaxStartDivider == 3

\* In the preview staging scenario num_samples is drawn from 1..MaxSamples.
MaxSamples == 3

(* ------------------------------------------------------------------ *)
(* Tile::TileState, TileOrder.                                          *)
(* ------------------------------------------------------------------ *)
RENDER == 0
RENDERED == 1
DENOISE == 2
DENOISED == 3
DONE == 4
TileState == {RENDER, RENDERED, DENOISE, DENOISED, DONE}

TILE_CENTER == 0
TILE_RIGHT_TO_LEFT == 1
TILE_LEFT_TO_RIGHT == 2
TILE_TOP_TO_BOTTOM == 3
TILE_BOTTOM_TO_TOP == 4
TILE_HILBERT_SPIRAL == 5
TileOrder == {TILE_CENTER, TILE_RIGHT_TO_LEFT, TILE_LEFT_TO_RIGHT,
              TILE_TOP_TO_BOTTOM, TILE_BOTTOM_TO_TOP, TILE_HILBERT_SPIRAL}

\* enum SpiralDirection
DIRECTION_UP == 0
DIRECTION_LEFT == 1
DIRECTION_DOWN == 2
DIRECTION_RIGHT == 3

\* The tile orders the scheduling model draws from: one the queues are sorted
\* for and the one they are generated in.
ListOrders == {TILE_CENTER, TILE_BOTTOM_TO_TOP}

INT_MAX == 2147483647
\* The sample range the constructor sets.
range_start_sample == 0
range_num_samples == -1

\* RenderBuffers* values: the null pointer and a live per-tile buffer.
NULL == "NULL"
BUFFERS == "BUFFERS"

max(a, b) == IF a >= b THEN a ELSE b
min(a, b) == IF a <= b THEN a ELSE b

(* ------------------------------------------------------------------ *)
(* State.                                                               *)
(* ------------------------------------------------------------------ *)
VARIABLES
    params,               \* BufferParams: [width, height]
    tile_size,            \* int2: [x, y]
    tile_order,
    num_devices,
    preserve_tile_device,
    background,
    schedule_denoising,
    only_denoise,
    progressive,
    num_samples,
    start_resolution,
    tiles,                \* state.tiles: 0..n-1 -> Tile
    tile_stride,          \* state.tile_stride
    render_tiles,         \* state.render_tiles: sequence (one per logical device) of sequences
    denoise_tiles,        \* state.denoise_tiles
    num_tiles,            \* state.num_tiles
    num_rendered_tiles,   \* state.num_rendered_tiles
    sample,               \* state.sample
    state_num_samples,    \* state.num_samples
    resolution_divider,   \* state.resolution_divider
    total_pixel_samples,  \* state.total_pixel_samples
    phases,               \* the phases next() has started since reset: divider and samples of each
    held,                 \* per device: the entries of state.tiles it was handed and has not returned
    handed,               \* the entries next_tile has handed out since the last tile generation
    call,                 \* the last call made on the manager, with its results
    filter,               \* kernel_filter_construct_transform: its inputs and what it returned
    walk,                 \* hilbert_index_to_pos: the positions of the indices 0 .. d-1 of a curve
    writing               \* the tiles a caller was told to write and has not finished writing

config == <<params, tile_size, tile_order, num_devices, preserve_tile_device,
            background, schedule_denoising, only_denoise, progressive, num_samples,
            start_resolution>>
vars == <<params, tile_size, tile_order, num_devices, preserve_tile_device,
          background, schedule_denoising, only_denoise, progressive, num_samples,
          start_resolution,
          tiles, tile_stride, render_tiles, denoise_tiles, num_tiles,
          num_rendered_tiles, sample, state_num_samples, resolution_divider,
          total_pixel_samples, phases, held, handed, call, filter, walk, writing>>

\* The variables of the functions checked on their own.
functions == <<filter, walk>>

(* ------------------------------------------------------------------ *)
(* Tile and the comparator used to sort a device's queue.               *)
(* ------------------------------------------------------------------ *)
Tile(index_, x_, y_, w_, h_, device_, state_, buffers_) ==
    [index |-> index_, x |-> x_, y |-> y_, w |-> w_, h |-> h_,
     device |-> device_, state |-> state_, buffers |-> buffers_]

\* dot(dist, dist) for the distance of a tile's center to the image center.
CenterDist(center, t) ==
    LET ddx == center.x - (t.x + t.w \div 2)
        ddy == center.y - (t.y + t.h \div 2)
    IN ddx * ddx + ddy * ddy

\* TileComparator::operator()(a, b) over the tile array ts.
TileComparator(order, center, ts, a, b) ==
    CASE order = TILE_CENTER ->
            CenterDist(center, ts[a]) < CenterDist(center, ts[b])
      [] order = TILE_LEFT_TO_RIGHT ->
            IF ts[a].x = ts[b].x THEN ts[a].y < ts[b].y ELSE ts[a].x < ts[b].x
      [] order = TILE_RIGHT_TO_LEFT ->
            IF ts[a].x = ts[b].x THEN ts[a].y < ts[b].y ELSE ts[a].x > ts[b].x
      [] order = TILE_TOP_TO_BOTTOM ->
            IF ts[a].y = ts[b].y THEN ts[a].x < ts[b].x ELSE ts[a].y > ts[b].y
      [] OTHER ->
            IF ts[a].y = ts[b].y THEN ts[a].x < ts[b].x ELSE ts[a].y < ts[b].y

\* list<int>::sort(comp): a stable sort.  Insert e behind every element it
\* does not precede.
RECURSIVE SortInsert(_, _, _, _, _)
SortInsert(order, center, ts, sorted, e) ==
    IF sorted = <<>> THEN <<e>>
    ELSE IF TileComparator(order, center, ts, e, Head(sorted))
         THEN <<e>> \o sorted
         ELSE <<Head(sorted)>> \o SortInsert(order, center, ts, Tail(sorted), e)

RECURSIVE ListSort(_, _, _, _)
ListSort(order, center, ts, l) ==
    IF l = <<>> THEN <<>>
    ELSE SortInsert(order, center, ts,
                    ListSort(order, center, ts, SubSeq(l, 1, Len(l) - 1)),
                    l[Len(l)])

(* ------------------------------------------------------------------ *)
(* TileManager::gen_tiles (the list orders; every order but the         *)
(* Hilbert spiral).                                                     *)
(* ------------------------------------------------------------------ *)
\* number of tiles along one axis: (size >= image)? 1: (image + size - 1)/size
tile_count(size, image) ==
    IF size >= image THEN 1 ELSE (image + size - 1) \div size

\* max(1, params.width/resolution), max(1, params.height/resolution)
image_width(resolution) == max(1, params.width \div resolution)
image_height(resolution) == max(1, params.height \div resolution)
num_logical_devices == IF preserve_tile_device THEN num_devices ELSE 1

\* One pass of the body of the tile_x loop.  g is the state of the loops:
\* the tile array, the vector of lists tile_list walks over, the position
\* `it` of tile_list in it (0-based), cur_tiles and cur_device.  A push
\* through an iterator that has left the vector is recorded in `overrun`.
gen_tiles_body(g, image_w, image_h, sliced, slice, slice_y, slice_h, tile_w, tile_slice_h, tiles_per_device, tile_y, tile_x) ==
    LET x == tile_x * tile_size.x
        y == tile_y * tile_size.y
        w == IF tile_x = tile_w - 1 THEN image_w - x ELSE tile_size.x
        h == IF tile_y = tile_slice_h - 1 THEN slice_h - y ELSE tile_size.y
        idx == tile_y * tile_w + tile_x
        center == [x |-> image_w \div 2, y |-> image_h \div 2]
        t == Tile(idx, x, y + slice_y, w, h,
                  IF sliced THEN slice ELSE g.cur_device,
                  IF only_denoise THEN DENOISE ELSE RENDER, NULL)
        inside == g.it < Len(g.lists)
        g1 == [g EXCEPT !.tiles[idx] = t,
                        !.lists = IF inside
                                  THEN [@ EXCEPT ![g.it + 1] = Append(@, idx)]
                                  ELSE @,
                        !.overrun = @ \/ ~inside]
    IN IF sliced THEN g1
       ELSE IF g1.cur_tiles + 1 = tiles_per_device
            THEN [g1 EXCEPT
                    !.lists = IF inside /\ tile_order # TILE_BOTTOM_TO_TOP
                              THEN [@ EXCEPT ![g.it + 1] =
                                       ListSort(tile_order, center, g1.tiles, @)]
                              ELSE @,
                    !.it = @ + 1,
                    !.cur_tiles = 0,
                    !.cur_device = @ + 1]
            ELSE [g1 EXCEPT !.cur_tiles = @ + 1]

\* The tile_y and tile_x loops of one slice, row by row; k counts the passes.
RECURSIVE gen_tiles_rows(_, _, _, _, _, _, _, _, _, _, _)
gen_tiles_rows(g, image_w, image_h, sliced, slice, slice_y, slice_h, tile_w, tile_slice_h, tiles_per_device, k) ==
    IF k >= tile_w * tile_slice_h THEN g
    ELSE gen_tiles_rows(
            gen_tiles_body(g, image_w, image_h, sliced, slice, slice_y, slice_h,
                           tile_w, tile_slice_h, tiles_per_device,
                           k \div tile_w, k % tile_w),
            image_w, image_h, sliced, slice, slice_y, slice_h, tile_w,
            tile_slice_h, tiles_per_device, k + 1)

\* The loop over the slices with tiles_per_device rounded down:
\* (tile_w * tile_slice_h) / num.
RECURSIVE gen_tiles_slices_round_down(_, _, _, _, _, _, _, _)
gen_tiles_slices_round_down(g, image_w, image_h, sliced, slice_num, num, tile_w, slice) ==
    IF slice >= slice_num THEN g
    ELSE
      LET slice_y == (image_h \div slice_num) * slice
          slice_h == IF slice = slice_num - 1
                     THEN image_h - slice * (image_h \div slice_num)
                     ELSE image_h \div slice_num
          tile_slice_h == tile_count(tile_size.y, slice_h)
          tiles_per_device == (tile_w * tile_slice_h) \div num
          g0 == [g EXCEPT !.cur_tiles = 0, !.cur_device = 0]
          g1 == gen_tiles_rows(g0, image_w, image_h, sliced, slice, slice_y,
                               slice_h, tile_w, tile_slice_h, tiles_per_device, 0)
      IN gen_tiles_slices_round_down(IF sliced THEN [g1 EXCEPT !.it = @ + 1] ELSE g1,
                          image_w, image_h, sliced, slice_num, num, tile_w,
                          slice + 1)

\* The loop over the slices.
RECURSIVE gen_tiles_slices(_, _, _, _, _, _, _, _)
gen_tiles_slices(g, image_w, image_h, sliced, slice_num, num, tile_w, slice) ==
    IF slice >= slice_num THEN g
    ELSE
      LET slice_y == (image_h \div slice_num) * slice
          slice_h == IF slice = slice_num - 1
                     THEN image_h - slice * (image_h \div slice_num)
                     ELSE image_h \div slice_num
          tile_slice_h == tile_count(tile_size.y, slice_h)
          tiles_per_device == (tile_w * tile_slice_h + num - 1) \div num
          g0 == [g EXCEPT !.cur_tiles = 0, !.cur_device = 0]
          g1 == gen_tiles_rows(g0, image_w, image_h, sliced, slice, slice_y,
                               slice_h, tile_w, tile_slice_h, tiles_per_device, 0)
      IN gen_tiles_slices(IF sliced THEN [g1 EXCEPT !.it = @ + 1] ELSE g1,
                          image_w, image_h, sliced, slice_num, num, tile_w,
                          slice + 1)

(* ------------------------------------------------------------------ *)
(* TileManager::gen_tiles, the Hilbert spiral.                          *)
(* ------------------------------------------------------------------ *)
\* The C++ division of ints, which truncates toward zero (b > 0).
int_div(a, b) == IF a >= 0 THEN a \div b ELSE -((-a) \div b)

\* The for loop of hilbert_index_to_pos with d >>= 1 in place of d >>= 2.
RECURSIVE hilbert_index_to_pos_loop_shift_one(_, _, _, _)
hilbert_index_to_pos_loop_shift_one(n, s, d, xy) ==
    IF s >= n THEN xy
    ELSE LET rx == (d \div 2) % 2
             ry == (d + rx) % 2
             reflected == IF rx = 1
                          THEN [x |-> (s - 1) - xy.x, y |-> (s - 1) - xy.y]
                          ELSE xy
             turned == IF ry = 0
                       THEN [x |-> reflected.y, y |-> reflected.x]
                       ELSE xy
         IN hilbert_index_to_pos_loop_shift_one(n, s * 2, d \div 2,
                [x |-> turned.x + rx * s, y |-> turned.y + ry * s])

\* The for loop of hilbert_index_to_pos(n, d), at step s with xy so far.
RECURSIVE hilbert_index_to_pos_loop(_, _, _, _)
hilbert_index_to_pos_loop(n, s, d, xy) ==
    IF s >= n THEN xy
    ELSE LET rx == (d \div 2) % 2
             ry == (d + rx) % 2
             reflected == IF rx = 1
                          THEN [x |-> (s - 1) - xy.x, y |-> (s - 1) - xy.y]
                          ELSE xy
             turned == IF ry = 0
                       THEN [x |-> reflected.y, y |-> reflected.x]
                       ELSE xy
         IN hilbert_index_to_pos_loop(n, s * 2, d \div 4,
                [x |-> turned.x + rx * s, y |-> turned.y + ry * s])

hilbert_index_to_pos(n, d) ==
    hilbert_index_to_pos_loop(n, 1, d, [x |-> 0, y |-> 0])

\* hilbert_rotate without any rotation: the position as the curve gives it.
hilbert_rotate_none(hilbert_size, prev_dir, dir, hilbert_pos) == hilbert_pos

\* The rotation of a block according to the spiral direction.
hilbert_rotate(hilbert_size, prev_dir, dir, hilbert_pos) ==
    IF prev_dir = DIRECTION_UP /\ dir = DIRECTION_UP
    THEN [x |-> hilbert_pos.y, y |-> hilbert_pos.x]
    ELSE IF dir = DIRECTION_LEFT \/ prev_dir = DIRECTION_LEFT
    THEN hilbert_pos
    ELSE IF dir = DIRECTION_DOWN
    THEN [x |-> hilbert_size - 1 - hilbert_pos.y,
          y |-> hilbert_size - 1 - hilbert_pos.x]
    ELSE [x |-> hilbert_size - 1 - hilbert_pos.x,
          y |-> hilbert_size - 1 - hilbert_pos.y]

\* One pass of the hilbert_index loop.  c holds the values computed before
\* the loops; g is the state of the loops: what gen_tiles_body keeps and
\* block, prev_dir, dir, i and hilbert_index, with the indices in the order
\* they were generated in `emitted`.
hilbert_body(g, c) ==
    LET tile == hilbert_rotate(c.hilbert_size, g.prev_dir, g.dir,
                               hilbert_index_to_pos(c.hilbert_size, g.hilbert_index))
        pos == [x |-> g.block.x * c.block_size.x + tile.x * tile_size.x + c.offset.x,
                y |-> g.block.y * c.block_size.y + tile.y * tile_size.y + c.offset.y]
        w == min(tile_size.x, c.image_w - pos.x)
        h == min(tile_size.y, c.image_h - pos.y)
        idx == (pos.y \div tile_size.y) * c.tile_w + pos.x \div tile_size.x
        inside == g.it < Len(g.lists)
        last == g.cur_tiles + 1 = c.tiles_per_device
    IN IF ~(pos.x >= 0 /\ pos.y >= 0 /\ pos.x < c.image_w /\ pos.y < c.image_h)
       THEN [g EXCEPT !.hilbert_index = @ + 1]
       ELSE [g EXCEPT !.tiles[idx] =
                         Tile(idx, pos.x, pos.y, w, h, g.cur_device,
                              IF only_denoise THEN DENOISE ELSE RENDER, NULL),
                      !.lists = IF inside
                                THEN [@ EXCEPT ![g.it + 1] = <<idx>> \o @]
                                ELSE @,
                      !.overrun = @ \/ ~inside,
                      !.emitted = Append(@, idx),
                      !.it = IF last THEN @ + 1 ELSE @,
                      !.cur_tiles = IF last THEN 0 ELSE @ + 1,
                      !.cur_device = IF last THEN @ + 1 ELSE @,
                      !.hilbert_index = @ + 1]

\* The hilbert_index loop over one block.
RECURSIVE hilbert_block(_, _)
hilbert_block(g, c) ==
    IF g.hilbert_index >= c.hilbert_size * c.hilbert_size THEN g
    ELSE hilbert_block(hilbert_body(g, c), c)

\* The switch(dir) that advances to the next block.
hilbert_advance(g, c) ==
    IF g.dir = DIRECTION_UP
    THEN [g EXCEPT !.prev_dir = g.dir,
                   !.block.y = @ + 1,
                   !.dir = IF g.block.y + 1 = c.n - g.i - 1
                           THEN DIRECTION_LEFT ELSE @]
    ELSE IF g.dir = DIRECTION_LEFT
    THEN [g EXCEPT !.prev_dir = g.dir,
                   !.block.x = @ + 1,
                   !.dir = IF g.block.x + 1 = c.n - g.i - 1
                           THEN DIRECTION_DOWN ELSE @]
    ELSE IF g.dir = DIRECTION_DOWN
    THEN [g EXCEPT !.prev_dir = g.dir,
                   !.block.y = @ - 1,
                   !.dir = IF g.block.y - 1 = g.i THEN DIRECTION_RIGHT ELSE @]
    ELSE [g EXCEPT !.prev_dir = g.dir,
                   !.block.x = @ - 1,
                   !.dir = IF g.block.x - 1 = g.i + 1 THEN DIRECTION_UP ELSE @,
                   !.i = IF g.block.x - 1 = g.i + 1 THEN @ + 1 ELSE @]

\* The loop over the blocks stopping as soon as the spiral has reached the
\* column of the center block: if(block.x == (n-1)/2) break.
RECURSIVE hilbert_spiral_stop_at_column(_, _)
hilbert_spiral_stop_at_column(g, c) ==
    IF g.hilbert_index < c.hilbert_size * c.hilbert_size
    THEN hilbert_spiral_stop_at_column(hilbert_block(g, c), c)
    ELSE IF g.block.x = (c.n - 1) \div 2
    THEN g
    ELSE hilbert_spiral_stop_at_column(
             [hilbert_advance(g, c) EXCEPT
                 !.hilbert_index = 0,
                 !.blocks = Append(@, hilbert_advance(g, c).block)], c)

\* The loop over the blocks, for(int i = 0;;), entered with the tiles of the
\* current block still to generate.  `blocks` lists the blocks the loop has
\* come to, in that order.
RECURSIVE hilbert_spiral(_, _)
hilbert_spiral(g, c) ==
    IF g.hilbert_index < c.hilbert_size * c.hilbert_size
    THEN hilbert_spiral(hilbert_block(g, c), c)
    ELSE IF g.block.x = (c.n - 1) \div 2 /\ g.block.y = (c.n - 1) \div 2
    THEN g
    ELSE hilbert_spiral([hilbert_advance(g, c) EXCEPT
                            !.hilbert_index = 0,
                            !.blocks = Append(@, hilbert_advance(g, c).block)], c)

\* The branch tile_order == TILE_HILBERT_SPIRAL of gen_tiles, from the
\* state g0 the code before it leaves.
gen_tiles_hilbert(g0, image_w, image_h, num, tile_w, tile_h) ==
    LET hilbert_size == IF max(tile_size.x, tile_size.y) <= 12 THEN 8 ELSE 4
        block_size == [x |-> tile_size.x * hilbert_size,
                       y |-> tile_size.y * hilbert_size]
        blocks_x == tile_count(block_size.x, image_w)
        blocks_y == tile_count(block_size.y, image_h)
        m == max(blocks_x, blocks_y)
        n == IF m % 2 = 1 THEN m ELSE m + 1
        offset == [x |-> int_div(int_div(image_w - n * block_size.x, 2),
                                 tile_size.x) * tile_size.x,
                   y |-> int_div(int_div(image_h - n * block_size.y, 2),
                                 tile_size.y) * tile_size.y]
        c == [image_w |-> image_w, image_h |-> image_h, tile_w |-> tile_w,
              tiles_per_device |-> (tile_w * tile_h + num - 1) \div num,
              hilbert_size |-> hilbert_size, block_size |-> block_size,
              n |-> n, offset |-> offset]
    IN hilbert_spiral([g0 EXCEPT !.blocks = <<[x |-> 0, y |-> 0]>>]
                      @@ [block |-> [x |-> 0, y |-> 0],
                          prev_dir |-> DIRECTION_UP, dir |-> DIRECTION_UP,
                          i |-> 0, hilbert_index |-> 0], c)

\* gen_tiles(sliced).  `fresh` is what resize() leaves in an entry: Tile()
\* initialises no member, so an entry the loops do not assign keeps it.
\* `emitted` lists the indices the Hilbert spiral generated, in that order,
\* `blocks` the blocks it walked;
\* `asserted` tells whether assert(!sliced) failed.
gen_tiles(sliced, resolution, fresh) ==
    LET image_w == image_width(resolution)
        image_h == image_height(resolution)
        num == min(image_h, num_logical_devices)
        slice_num == IF sliced THEN num ELSE 1
        tile_w == tile_count(tile_size.x, image_w)
        tile_h == tile_count(tile_size.y, image_h)
        g0 == [tiles |-> [i \in 0 .. tile_w * tile_h - 1 |-> fresh],
               lists |-> [d \in 1 .. num |-> <<>>],
               it |-> 0, cur_tiles |-> 0, cur_device |-> 0,
               overrun |-> FALSE, emitted |-> <<>>, blocks |-> <<>>]
        g == IF tile_order = TILE_HILBERT_SPIRAL
             THEN gen_tiles_hilbert(g0, image_w, image_h, num, tile_w, tile_h)
             ELSE gen_tiles_slices(g0, image_w, image_h, sliced, slice_num, num,
                                   tile_w, 0)
        empty == [d \in 1 .. num |-> <<>>]
    IN [tiles |-> g.tiles,
        tile_stride |-> tile_w,
        render_tiles |-> IF only_denoise THEN empty ELSE g.lists,
        denoise_tiles |-> IF only_denoise THEN g.lists ELSE empty,
        overrun |-> g.overrun,
        emitted |-> g.emitted,
        blocks |-> g.blocks,
        asserted |-> (tile_order = TILE_HILBERT_SPIRAL /\ sliced),
        result |-> tile_w * tile_h]

\* The contents an unassigned entry of state.tiles may have.  The members are
\* indeterminate; the model draws the state from all five states and the
\* position from the origins of the first and of the last tile of the grid,
\* and takes the first device.
FreshTiles(resolution) ==
    LET tile_w == tile_count(tile_size.x, image_width(resolution))
        tile_h == tile_count(tile_size.y, image_height(resolution))
    IN { Tile(0, g * (tile_w - 1) * tile_size.x, g * (tile_h - 1) * tile_size.y,
              tile_size.x, tile_size.y, 0, st, NULL) :
           g \in {0, 1}, st \in TileState }

\* The entries of state.tiles no pass of the loops assigns.
unassigned(sliced, resolution) ==
    LET marker == Tile(-1, 0, 0, 0, 0, 0, RENDER, NULL)
        g == gen_tiles(sliced, resolution, marker)
    IN { i \in DOMAIN g.tiles : g.tiles[i] = marker }

(* ------------------------------------------------------------------ *)
(* TileManager::return_tile.                                            *)
(* ------------------------------------------------------------------ *)
\* int dx[], dy[]: the eight neighbours in row-major order, then the tile itself.
dx == <<-1, 0, 1, -1, 1, -1, 0, 1, 0>>
dy == <<-1, -1, -1, 0, 0, 1, 1, 1, 0>>

\* neighbor_below with the `continue` for a neighbour outside the grid turned
\* into a failure: a tile at the border never has all its neighbours.
neighbor_below_strict(ts, nindex, floor, tile_w, tile_h) ==
    \E nn \in 1 .. 8 :
        LET nnx == ts[nindex].x \div tile_size.x + dx[nn]
            nny == ts[nindex].y \div tile_size.y + dy[nn]
        IN \/ (nnx < 0 \/ nny < 0 \/ nnx >= tile_w \/ nny >= tile_h)
           \/ ts[nny * tile_stride + nnx].state < floor

\* The inner loop (nn = 0..7): does a neighbour of ts[nindex] that lies in
\* the grid have a state below `floor`?
neighbor_below(ts, nindex, floor, tile_w, tile_h) ==
    \E nn \in 1 .. 8 :
        LET nnx == ts[nindex].x \div tile_size.x + dx[nn]
            nny == ts[nindex].y \div tile_size.y + dy[nn]
        IN /\ ~(nnx < 0 \/ nny < 0 \/ nnx >= tile_w \/ nny >= tile_h)
           /\ ts[nny * tile_stride + nnx].state < floor

\* rendered_scan_body with the test `state != RENDERED` weakened to
\* `state < RENDERED`.
rendered_scan_body_weak(r, index, n, tile_w, tile_h) ==
    LET nx == r.tiles[index].x \div tile_size.x + dx[n + 1]
        ny == r.tiles[index].y \div tile_size.y + dy[n + 1]
        nindex == ny * tile_stride + nx
    IN IF nx < 0 \/ ny < 0 \/ nx >= tile_w \/ ny >= tile_h THEN r
       ELSE IF r.tiles[nindex].state < RENDERED THEN r
       ELSE IF neighbor_below(r.tiles, nindex, RENDERED, tile_w, tile_h) THEN r
       ELSE [r EXCEPT
               !.tiles[nindex].state = DENOISE,
               !.denoise_tiles[r.tiles[nindex].device + 1] = Append(@, nindex),
               !.enqueued = Append(@, nindex)]

\* One pass (n) of the outer loop of case Tile::RENDER.  r carries the tile
\* array, the denoise queues and what the call has done so far.
rendered_scan_body(r, index, n, tile_w, tile_h) ==
    LET nx == r.tiles[index].x \div tile_size.x + dx[n + 1]
        ny == r.tiles[index].y \div tile_size.y + dy[n + 1]
        nindex == ny * tile_stride + nx
    IN IF nx < 0 \/ ny < 0 \/ nx >= tile_w \/ ny >= tile_h THEN r
       ELSE IF r.tiles[nindex].state # RENDERED THEN r
       ELSE IF neighbor_below(r.tiles, nindex, RENDERED, tile_w, tile_h) THEN r
       ELSE [r EXCEPT
               !.tiles[nindex].state = DENOISE,
               !.denoise_tiles[r.tiles[nindex].device + 1] = Append(@, nindex),
               !.enqueued = Append(@, nindex)]

\* One pass (n) of the outer loop of case Tile::DENOISE.
denoised_scan_body(r, index, n, tile_w, tile_h) ==
    LET nx == r.tiles[index].x \div tile_size.x + dx[n + 1]
        ny == r.tiles[index].y \div tile_size.y + dy[n + 1]
        nindex == ny * tile_stride + nx
    IN IF nx < 0 \/ ny < 0 \/ nx >= tile_w \/ ny >= tile_h THEN r
       ELSE IF r.tiles[nindex].state # DENOISED THEN r
       ELSE IF neighbor_below(r.tiles, nindex, DENOISED, tile_w, tile_h) THEN r
       ELSE IF n = 8
            THEN [r EXCEPT !.tiles[nindex].state = DONE,
                           !.done = Append(@, nindex),
                           !.delete_tile = TRUE]
            ELSE [r EXCEPT !.tiles[nindex].state = DONE,
                           !.tiles[nindex].buffers = NULL,
                           !.done = Append(@, nindex),
                           !.deleted = Append(@, nindex)]

\* The outer loop of case Tile::RENDER run from n = 8 down to n = 0.
RECURSIVE rendered_scan_down(_, _, _, _, _)
rendered_scan_down(r, index, n, tile_w, tile_h) ==
    IF n >= 9 THEN r
    ELSE rendered_scan_down(rendered_scan_body(r, index, 8 - n, tile_w, tile_h),
                            index, n + 1, tile_w, tile_h)

RECURSIVE rendered_scan(_, _, _, _, _)
rendered_scan(r, index, n, tile_w, tile_h) ==
    IF n >= 9 THEN r
    ELSE rendered_scan(rendered_scan_body(r, index, n, tile_w, tile_h),
                       index, n + 1, tile_w, tile_h)

RECURSIVE denoised_scan(_, _, _, _, _)
denoised_scan(r, index, n, tile_w, tile_h) ==
    IF n >= 9 THEN r
    ELSE denoised_scan(denoised_scan_body(r, index, n, tile_w, tile_h),
                       index, n + 1, tile_w, tile_h)

\* The !schedule_denoising branch of case Tile::RENDER, with the assignment
\* delete_tile = true left out.
return_rendered_keep(r, index) ==
    [r EXCEPT !.tiles[index].state = DONE,
              !.done = <<index>>,
              !.result = TRUE,
              !.asserted = only_denoise]

\* The !schedule_denoising branch of case Tile::RENDER.
return_rendered(r, index) ==
    [r EXCEPT !.tiles[index].state = DONE,
              !.done = <<index>>,
              !.delete_tile = TRUE,
              !.result = TRUE,
              !.asserted = only_denoise]

\* return_tile(index, delete_tile): the state it leaves and what it reports.
\* `result` is the value returned, `enqueued` the indices pushed on a denoise
\* queue, `done` the tiles set to DONE, `deleted` the tiles whose buffers the
\* manager deleted, `asserted` whether an assert() of the function failed.
return_tile(index) ==
    LET tile_w == tile_count(tile_size.x, image_width(resolution_divider))
        tile_h == tile_count(tile_size.y, image_height(resolution_divider))
        r0 == [tiles |-> tiles, denoise_tiles |-> denoise_tiles,
               delete_tile |-> FALSE, result |-> TRUE, enqueued |-> <<>>,
               done |-> <<>>, deleted |-> <<>>, asserted |-> FALSE]
    IN CASE tiles[index].state = RENDER ->
              IF ~schedule_denoising
              THEN return_rendered(r0, index)
              ELSE [rendered_scan([r0 EXCEPT !.tiles[index].state = RENDERED,
                                             !.asserted = only_denoise],
                                  index, 0, tile_w, tile_h)
                      EXCEPT !.result = FALSE]
         [] tiles[index].state = DENOISE ->
              IF only_denoise
              THEN [r0 EXCEPT !.tiles[index].state = DONE,
                              !.done = <<index>>,
                              !.delete_tile = FALSE,
                              !.result = TRUE]
              ELSE [denoised_scan([r0 EXCEPT !.tiles[index].state = DENOISED],
                                  index, 0, tile_w, tile_h)
                      EXCEPT !.result = TRUE]
         [] OTHER -> [r0 EXCEPT !.asserted = TRUE, !.result = TRUE]

(* ------------------------------------------------------------------ *)
(* TileManager::next_tile.                                              *)
(* ------------------------------------------------------------------ *)
\* next_tile with the two queues tried in the other order: the render queue
\* first, the denoise queue when the render queue is empty.
next_tile_render_first(device) ==
    LET logical_device == IF preserve_tile_device THEN device ELSE 0
        q == logical_device + 1
        none == [result |-> FALSE, idx |-> -1, render_tiles |-> render_tiles,
                 denoise_tiles |-> denoise_tiles,
                 num_rendered_tiles |-> num_rendered_tiles]
    IN IF logical_device >= Len(render_tiles) THEN none
       ELSE IF render_tiles[q] # <<>>
       THEN [none EXCEPT !.result = TRUE,
                         !.idx = Head(render_tiles[q]),
                         !.render_tiles[q] = Tail(@),
                         !.num_rendered_tiles = @ + 1]
       ELSE IF denoise_tiles[q] = <<>> THEN none
       ELSE [none EXCEPT !.result = TRUE,
                         !.idx = Head(denoise_tiles[q]),
                         !.denoise_tiles[q] = Tail(@),
                         !.num_rendered_tiles =
                              IF only_denoise THEN @ + 1 ELSE @]

\* next_tile(tile, device): `result` is the value returned, `idx` the entry
\* of state.tiles the reference designates (-1 when none is handed out).
next_tile(device) ==
    LET logical_device == IF preserve_tile_device THEN device ELSE 0
        q == logical_device + 1
        none == [result |-> FALSE, idx |-> -1, render_tiles |-> render_tiles,
                 denoise_tiles |-> denoise_tiles,
                 num_rendered_tiles |-> num_rendered_tiles]
    IN IF logical_device >= Len(render_tiles) THEN none
       ELSE IF denoise_tiles[q] # <<>>
       THEN [none EXCEPT !.result = TRUE,
                         !.idx = Head(denoise_tiles[q]),
                         !.denoise_tiles[q] = Tail(@),
                         !.num_rendered_tiles =
                              IF only_denoise THEN @ + 1 ELSE @]
       ELSE IF render_tiles[q] = <<>> THEN none
       ELSE [none EXCEPT !.result = TRUE,
                         !.idx = Head(render_tiles[q]),
                         !.render_tiles[q] = Tail(@),
                         !.num_rendered_tiles = @ + 1]

(* ------------------------------------------------------------------ *)
(* TileManager::free_device.                                            *)
(* ------------------------------------------------------------------ *)
\* free_device() without the test of schedule_denoising.
free_device_always(ts) ==
    [i \in DOMAIN ts |-> [ts[i] EXCEPT !.buffers = NULL]]

\* free_device(): the tile array it leaves.
free_device(ts) ==
    IF schedule_denoising
    THEN [i \in DOMAIN ts |-> [ts[i] EXCEPT !.buffers = NULL]]
    ELSE ts

(* ------------------------------------------------------------------ *)
(* reset, done, next, set_tiles.                                        *)
(* ------------------------------------------------------------------ *)
\* The while loop of get_divider with the test w*h > start_resolution, the
\* start resolution not squared.
RECURSIVE get_divider_loop_unsquared(_, _, _, _)
get_divider_loop_unsquared(w, h, start, divider) ==
    IF w * h > start
    THEN get_divider_loop_unsquared(max(1, w \div 2), max(1, h \div 2), start,
                                    divider * 2)
    ELSE divider

\* The while loop of get_divider with w and h halved without max(1, .).
RECURSIVE get_divider_loop_unclamped(_, _, _, _)
get_divider_loop_unclamped(w, h, start, divider) ==
    IF w * h > start * start
    THEN get_divider_loop_unclamped(w \div 2, h \div 2, start, divider * 2)
    ELSE divider

RECURSIVE get_divider_loop(_, _, _, _)
get_divider_loop(w, h, start, divider) ==
    IF w * h > start * start
    THEN get_divider_loop(max(1, w \div 2), max(1, h \div 2), start, divider * 2)
    ELSE divider

get_divider(w, h, start) ==
    IF start # INT_MAX THEN get_divider_loop(w, h, start, 1) ELSE 1

\* get_num_effective_samples()
get_num_effective_samples ==
    IF only_denoise THEN 1
    ELSE IF range_num_samples = -1 THEN num_samples ELSE range_num_samples

\* The while loop of set_samples: one preview level per divider above 1.
RECURSIVE set_samples_loop(_, _)
set_samples_loop(divider, pixel_samples) ==
    IF divider > 1
    THEN set_samples_loop(divider \div 2,
                          pixel_samples + image_width(divider) * image_height(divider))
    ELSE pixel_samples

\* set_samples(num_samples): the value it leaves in state.total_pixel_samples.
set_samples ==
    IF num_samples = INT_MAX THEN 0
    ELSE IF only_denoise THEN params.width * params.height
    ELSE set_samples_loop(
             get_divider(params.width, params.height, start_resolution) \div 2, 0)
         + get_num_effective_samples * params.width * params.height
         + (IF schedule_denoising THEN params.width * params.height ELSE 0)

\* done() without the test of the resolution divider.
done_any_divider ==
    LET end_sample == IF range_num_samples = -1 THEN num_samples
                      ELSE range_start_sample + range_num_samples
    IN sample + state_num_samples >= end_sample

done ==
    LET end_sample == IF range_num_samples = -1 THEN num_samples
                      ELSE range_start_sample + range_num_samples
    IN resolution_divider = 1 /\ sample + state_num_samples >= end_sample

\* A reference handed out by next_tile and not yet passed to return_tile:
\* held[d] lists, in ascending order, the entries device d holds.
RECURSIVE HeldInsert(_, _)
HeldInsert(l, i) ==
    IF l = <<>> THEN <<i>>
    ELSE IF i <= Head(l) THEN <<i>> \o l
    ELSE <<Head(l)>> \o HeldInsert(Tail(l), i)

HeldRemove(l, k) == SubSeq(l, 1, k - 1) \o SubSeq(l, k + 1, Len(l))

RECURSIVE SumLen(_, _)
SumLen(f, S) ==
    IF S = {} THEN 0
    ELSE LET e == CHOOSE e \in S : TRUE IN Len(f[e]) + SumLen(f, S \ {e})

Outstanding == SumLen(held, DOMAIN held)

NoCall == [op |-> "none", device |-> -1, index |-> -1, result |-> FALSE,
           delete_tile |-> FALSE, before |-> -1, enqueued |-> <<>>,
           done |-> <<>>, deleted |-> <<>>, asserted |-> FALSE,
           aborted |-> FALSE]

\* No call of kernel_filter_construct_transform, no curve walked.
NoFilter == [feature_matrix |-> <<>>, pca_threshold |-> 0, called |-> FALSE,
             rank |-> 0, scaled |-> <<>>]
NoWalk == [n |-> 0, d |-> 0, pos |-> <<>>]

\* The worker that receives a tile gives it its buffers when it has none.
acquire_buffers(ts, idx) ==
    IF ts[idx].buffers = NULL THEN [ts EXCEPT ![idx].buffers = BUFFERS] ELSE ts

\* What reset(params, num_samples) leaves in `state`, and the workers idle.
reset ==
    /\ tiles = <<>>
    /\ tile_stride = 0
    /\ render_tiles = <<>>
    /\ denoise_tiles = <<>>
    /\ num_tiles = 0
    /\ num_rendered_tiles = 0
    /\ sample = range_start_sample - 1
    /\ state_num_samples = 0
    /\ resolution_divider = get_divider(params.width, params.height, start_resolution)
    /\ total_pixel_samples = set_samples
    /\ phases = <<>>
    /\ held = [d \in 0 .. num_devices - 1 |-> <<>>]
    /\ handed = {}
    /\ writing = {}
    /\ call = NoCall

\* The state the constructor and reset(params, num_samples) leave.
Init ==
    /\ params \in [width : 1 .. MaxWidth, height : 1 .. MaxHeight]
    /\ tile_size \in {[x |-> t, y |-> t] : t \in 1 .. MaxTileSize}
    /\ tile_order \in ListOrders
    /\ num_devices \in 1 .. MaxDevices
    /\ preserve_tile_device \in BOOLEAN
    /\ background \in BOOLEAN
    /\ schedule_denoising \in BOOLEAN
    /\ only_denoise \in BOOLEAN
    /\ progressive \in BOOLEAN
    /\ num_samples = NumSamples
    /\ start_resolution = INT_MAX
    /\ reset
    /\ filter = NoFilter
    /\ walk = NoWalk

\* set_tiles(), called by next() with state.resolution_divider = resolution.
\* When assert(!sliced) of gen_tiles fails, a build with assertions
\* (ndebug = FALSE) aborts the process there; a build without them runs on.
set_tiles(resolution) ==
    \E fresh \in (IF unassigned(~background, resolution) = {}
                  THEN {Tile(0, 0, 0, 0, 0, 0, RENDER, NULL)}
                  ELSE FreshTiles(resolution)) :
        \E g \in {gen_tiles(~background, resolution, fresh)} :
        \E ndebug \in (IF g.asserted THEN BOOLEAN ELSE {TRUE}) :
        /\ tiles' = IF ndebug THEN g.tiles ELSE tiles
        /\ tile_stride' = IF ndebug THEN g.tile_stride ELSE tile_stride
        /\ render_tiles' = IF ndebug THEN g.render_tiles ELSE render_tiles
        /\ denoise_tiles' = IF ndebug THEN g.denoise_tiles ELSE denoise_tiles
        /\ num_tiles' = IF ndebug THEN g.result ELSE num_tiles
        /\ call' = [NoCall EXCEPT !.op = "next", !.result = ndebug,
                                  !.asserted = g.asserted, !.aborted = ~ndebug]

\* Every queue is empty.
QueuesEmpty ==
    /\ \A q \in DOMAIN render_tiles : render_tiles[q] = <<>>
    /\ \A q \in DOMAIN denoise_tiles : denoise_tiles[q] = <<>>

\* next().  The session calls it to start a phase: when the workers have
\* drained the queues of the phase before and returned every tile.
next ==
    /\ ~call.aborted
    /\ Outstanding = 0
    /\ QueuesEmpty
    /\ UNCHANGED <<config, functions, writing>>
    /\ UNCHANGED <<num_rendered_tiles, total_pixel_samples, held>>
    /\ IF done
       THEN /\ UNCHANGED <<tiles, tile_stride, render_tiles, denoise_tiles,
                           num_tiles, sample, state_num_samples, resolution_divider,
                           phases, handed>>
            /\ call' = [NoCall EXCEPT !.op = "next", !.result = FALSE]
       ELSE /\ IF progressive /\ resolution_divider > 1
               THEN /\ set_tiles(resolution_divider \div 2)
                    /\ IF call'.aborted
                       THEN UNCHANGED <<sample, resolution_divider,
                                        state_num_samples>>
                       ELSE /\ sample' = 0
                            /\ resolution_divider' = resolution_divider \div 2
                            /\ state_num_samples' = 1
               ELSE /\ set_tiles(1)
                    /\ IF call'.aborted
                       THEN UNCHANGED <<sample, resolution_divider,
                                        state_num_samples>>
                       ELSE /\ sample' = sample + 1
                            /\ state_num_samples' =
                                  IF progressive THEN 1
                                  ELSE IF range_num_samples = -1 THEN num_samples
                                  ELSE range_num_samples
                            /\ resolution_divider' = 1
            /\ IF call'.aborted
               THEN UNCHANGED <<phases, handed>>
               ELSE /\ phases' = Append(phases, [divider |-> resolution_divider',
                                                 samples |-> state_num_samples'])
                    /\ handed' = {}

\* A worker of physical device `device`, holding fewer than `limit` tiles,
\* asks for a tile.
TakeTile(device, limit) ==
    /\ ~call.aborted
    /\ Len(held[device]) < limit
    /\ \E r \in {next_tile(device)} :
       /\ render_tiles' = r.render_tiles
       /\ denoise_tiles' = r.denoise_tiles
       /\ num_rendered_tiles' = r.num_rendered_tiles
       /\ tiles' = IF r.result THEN acquire_buffers(tiles, r.idx) ELSE tiles
       /\ held' = IF r.result
                  THEN [held EXCEPT ![device] = HeldInsert(@, r.idx)]
                  ELSE held
       /\ handed' = IF r.result THEN handed \cup {r.idx} ELSE handed
       /\ call' = [NoCall EXCEPT !.op = "next_tile", !.device = device,
                                 !.index = r.idx, !.result = r.result,
                                 !.before = IF r.result THEN tiles[r.idx].state ELSE -1]
    /\ UNCHANGED <<config, functions, writing>>
    /\ UNCHANGED <<tile_stride, num_tiles, sample, state_num_samples,
                   resolution_divider, total_pixel_samples, phases>>

NextTile(device) == TakeTile(device, MaxHeld)

\* return_tile(index) as a call.  When an assert() of the function fails, a
\* build with assertions (ndebug = FALSE) aborts the process there and
\* nothing more happens; a build without them runs on.
return_tile_call(device, index) ==
    \E r \in {return_tile(index)} :
    \E ndebug \in (IF r.asserted THEN BOOLEAN ELSE {TRUE}) :
       /\ tiles' = IF ndebug THEN r.tiles ELSE tiles
       /\ denoise_tiles' = IF ndebug THEN r.denoise_tiles ELSE denoise_tiles
       /\ call' = IF ndebug
                  THEN [op |-> "return_tile", device |-> device, index |-> index,
                        result |-> r.result, delete_tile |-> r.delete_tile,
                        before |-> tiles[index].state, enqueued |-> r.enqueued,
                        done |-> r.done, deleted |-> r.deleted,
                        asserted |-> r.asserted, aborted |-> FALSE]
                  ELSE [NoCall EXCEPT !.op = "return_tile", !.device = device,
                                      !.index = index,
                                      !.before = tiles[index].state,
                                      !.asserted = TRUE, !.aborted = TRUE]

\* The worker of `device` returns the k-th of the tiles it holds.
return_tile_worker(device, k) ==
    /\ ~call.aborted
    /\ k \in 1 .. Len(held[device])
    /\ return_tile_call(device, held[device][k])
    /\ held' = IF call'.aborted THEN held
               ELSE [held EXCEPT ![device] = HeldRemove(@, k)]
    /\ UNCHANGED <<config, functions>>
    /\ UNCHANGED <<tile_stride, render_tiles, num_tiles, num_rendered_tiles,
                   sample, state_num_samples, resolution_divider,
                   total_pixel_samples, phases, handed>>

\* The same with the caller's write of the tile done before any other call
\* is made on the manager.
ReturnTile(device, k) ==
    /\ return_tile_worker(device, k)
    /\ UNCHANGED writing

Next ==
    \/ next
    \/ \E device \in 0 .. num_devices - 1 : NextTile(device)
    \/ \E device \in 0 .. num_devices - 1 :
          \E k \in 1 .. MaxHeld : ReturnTile(device, k)

Spec == Init /\ [][Next]_vars

(* ------------------------------------------------------------------ *)
(* The 3x3 grid scenario: a 192x192 image, 64x64 tiles, denoising        *)
(* scheduled, one device whose worker may hold every tile at once.      *)
(* ------------------------------------------------------------------ *)
InitGrid ==
    /\ params = [width |-> 192, height |-> 192]
    /\ tile_size = [x |-> 64, y |-> 64]
    /\ tile_order = TILE_LEFT_TO_RIGHT
    /\ num_devices = 1
    /\ preserve_tile_device = FALSE
    /\ background \in BOOLEAN
    /\ schedule_denoising = TRUE
    /\ only_denoise = FALSE
    /\ progressive = FALSE
    /\ num_samples = NumSamples
    /\ start_resolution = INT_MAX
    /\ reset
    /\ filter = NoFilter
    /\ walk = NoWalk

NextGrid ==
    \/ next
    \/ TakeTile(0, MaxHeldGrid)
    \/ \E k \in 1 .. MaxHeldGrid : ReturnTile(0, k)

SpecGrid == InitGrid /\ [][NextGrid]_vars

(* ------------------------------------------------------------------ *)
(* The viewport scenario: a 100x40 image, 32x32 tiles, two devices,      *)
(* each with its own horizontal slice.                                  *)
(* ------------------------------------------------------------------ *)
InitSlices ==
    /\ params = [width |-> 100, height |-> 40]
    /\ tile_size = [x |-> 32, y |-> 32]
    /\ tile_order \in ListOrders
    /\ num_devices = 2
    /\ preserve_tile_device = TRUE
    /\ background = FALSE
    /\ schedule_denoising \in BOOLEAN
    /\ only_denoise \in BOOLEAN
    /\ progressive = FALSE
    /\ num_samples = NumSamples
    /\ start_resolution = INT_MAX
    /\ reset
    /\ filter = NoFilter
    /\ walk = NoWalk

SpecSlices == InitSlices /\ [][Next]_vars

(* ------------------------------------------------------------------ *)
(* The tile order scenario: a background render without denoising, in   *)
(* each of the five list orders.                                        *)
(* ------------------------------------------------------------------ *)
InitOrders ==
    /\ params \in [width : 1 .. MaxWidth, height : 1 .. MaxHeight]
    /\ tile_size \in {[x |-> t, y |-> t] : t \in 1 .. MaxTileSize}
    /\ tile_order \in TileOrder \ {TILE_HILBERT_SPIRAL}
    /\ num_devices \in 1 .. MaxDevicesOrders
    /\ preserve_tile_device \in BOOLEAN
    /\ background = TRUE
    /\ schedule_denoising = FALSE
    /\ only_denoise = FALSE
    /\ progressive = FALSE
    /\ num_samples = NumSamples
    /\ start_resolution = INT_MAX
    /\ reset
    /\ filter = NoFilter
    /\ walk = NoWalk

SpecOrders == InitOrders /\ [][Next]_vars

(* ------------------------------------------------------------------ *)
(* The preview staging scenario: images up to 512x512 rendered as one   *)
(* tile, with and without a start resolution, progressive or not.       *)
(* ------------------------------------------------------------------ *)
StagingSides == {1, 4, 8, 512}
StartResolutions == {1, 64, INT_MAX}

InitStaging ==
    /\ params \in [width : StagingSides, height : StagingSides]
    /\ tile_size = [x |-> 512, y |-> 512]
    /\ tile_order = TILE_BOTTOM_TO_TOP
    /\ num_devices = 1
    /\ preserve_tile_device = FALSE
    /\ background = TRUE
    /\ schedule_denoising \in BOOLEAN
    /\ only_denoise \in BOOLEAN
    /\ progressive \in BOOLEAN
    /\ num_samples \in 1 .. MaxSamples
    /\ start_resolution \in StartResolutions
    /\ reset
    /\ filter = NoFilter
    /\ walk = NoWalk

SpecStaging == InitStaging /\ [][Next]_vars

(* ------------------------------------------------------------------ *)
(* The careless caller: besides the calls of a worker that returns what *)
(* it was handed, return_tile is called on any entry of state.tiles.    *)
(* ------------------------------------------------------------------ *)
InitCareless ==
    /\ params \in [width : 1 .. MaxSideCareless, height : 1 .. MaxSideCareless]
    /\ tile_size = [x |-> 1, y |-> 1]
    /\ tile_order = TILE_BOTTOM_TO_TOP
    /\ num_devices = 1
    /\ preserve_tile_device = FALSE
    /\ background = TRUE
    /\ schedule_denoising \in BOOLEAN
    /\ only_denoise \in BOOLEAN
    /\ progressive = FALSE
    /\ num_samples = NumSamples
    /\ start_resolution = INT_MAX
    /\ reset
    /\ filter = NoFilter
    /\ walk = NoWalk

\* return_tile(index, delete_tile) on an entry whatever its state.
ReturnAnyTile(index) ==
    /\ ~call.aborted
    /\ return_tile_call(0, index)
    /\ UNCHANGED <<config, functions, writing>>
    /\ UNCHANGED <<tile_stride, render_tiles, num_tiles, num_rendered_tiles,
                   sample, state_num_samples, resolution_divider,
                   total_pixel_samples, phases, held, handed>>

NextCareless ==
    \/ next
    \/ NextTile(0)
    \/ \E k \in 1 .. MaxHeld : ReturnTile(0, k)
    \/ \E index \in DOMAIN tiles : ReturnAnyTile(index)

SpecCareless == InitCareless /\ [][NextCareless]_vars

(* ------------------------------------------------------------------ *)
(* The empty image scenario: params.width or params.height may be 0, as *)
(* in the BufferParams the constructor resets with.                     *)
(* ------------------------------------------------------------------ *)
InitEmpty ==
    /\ params \in [width : 0 .. MaxSideEmpty, height : 0 .. MaxSideEmpty]
    /\ tile_size \in {[x |-> t, y |-> t] : t \in 1 .. MaxTileSize}
    /\ tile_order = TILE_BOTTOM_TO_TOP
    /\ num_devices \in 1 .. MaxDevices
    /\ preserve_tile_device \in BOOLEAN
    /\ background = TRUE
    /\ schedule_denoising \in BOOLEAN
    /\ only_denoise = FALSE
    /\ progressive = FALSE
    /\ num_samples = NumSamples
    /\ start_resolution = INT_MAX
    /\ reset
    /\ filter = NoFilter
    /\ walk = NoWalk

SpecEmpty == InitEmpty /\ [][Next]_vars

(* ------------------------------------------------------------------ *)
(* The Hilbert spiral scenario: tile_order HILBERT_SPIRAL, in blocks of *)
(* 8x8 and of 4x4 tiles, one block and a spiral of nine, in background  *)
(* and in viewport mode.                                                *)
(* ------------------------------------------------------------------ *)
HilbertScenes ==
    {[width |-> 32, height |-> 32, tile |-> 4],
     [width |-> 3, height |-> 2, tile |-> 1],
     [width |-> 10, height |-> 2, tile |-> 1],
     [width |-> 40, height |-> 24, tile |-> 16],
     [width |-> 70, height |-> 100, tile |-> 16]}

InitHilbert ==
    /\ \E scene \in HilbertScenes :
          /\ params = [width |-> scene.width, height |-> scene.height]
          /\ tile_size = [x |-> scene.tile, y |-> scene.tile]
    /\ tile_order = TILE_HILBERT_SPIRAL
    /\ num_devices \in 1 .. MaxDevices
    /\ preserve_tile_device \in BOOLEAN
    /\ background \in BOOLEAN
    /\ schedule_denoising = FALSE
    /\ only_denoise = FALSE
    /\ progressive = FALSE
    /\ num_samples = NumSamples
    /\ start_resolution = INT_MAX
    /\ reset
    /\ filter = NoFilter
    /\ walk = NoWalk

SpecHilbert == InitHilbert /\ [][Next]_vars

(* ------------------------------------------------------------------ *)
(* The teardown scenario: the session calls free_device() at any time   *)
(* between the calls of the worker.                                     *)
(* ------------------------------------------------------------------ *)
\* The entries of ts whose buffers differ from those in after: the buffers
\* the call deleted, in the order of the loop.
freed_buffers(ts, after) ==
    SelectSeq([k \in 1 .. Cardinality(DOMAIN ts) |-> k - 1],
              LAMBDA i : ts[i].buffers # after[i].buffers)

FreeDevice ==
    /\ ~call.aborted
    /\ tiles' = free_device(tiles)
    /\ call' = [NoCall EXCEPT !.op = "free_device",
                              !.deleted = freed_buffers(tiles, tiles')]
    /\ UNCHANGED <<config, functions, writing>>
    /\ UNCHANGED <<tile_stride, render_tiles, denoise_tiles, num_tiles,
                   num_rendered_tiles, sample, state_num_samples,
                   resolution_divider, total_pixel_samples, phases, held,
                   handed>>

NextTeardown ==
    \/ next
    \/ NextTile(0)
    \/ \E k \in 1 .. MaxHeld : ReturnTile(0, k)
    \/ FreeDevice

SpecTeardown == InitCareless /\ [][NextTeardown]_vars

(* ------------------------------------------------------------------ *)
(* kernel_filter_construct_transform: the rank selection that follows   *)
(* the eigendecomposition.  A float is a record: nan, or the value v.   *)
(* Eigenvalues are whole numbers, pca_threshold counts tenths.          *)
(* ------------------------------------------------------------------ *)
DENOISE_FEATURES == 10

Float(v) == [nan |-> FALSE, v |-> v]
NaN == [nan |-> TRUE, v |-> 0]

\* a + b, a >= b on floats: NaN absorbs, a comparison with NaN is false.
float_add(a, b) == IF a.nan \/ b.nan THEN NaN ELSE Float(a.v + b.v)
float_ge(a, b) == ~a.nan /\ ~b.nan /\ a.v >= b.v
\* a times the whole number k.
float_scale(a, k) == IF a.nan THEN NaN ELSE Float(a.v * k)
\* sqrtf(s) < cutoff/10 for cutoff >= 0: sqrtf of a negative number is NaN.
sqrtf_below(s, cutoff) == ~s.nan /\ s.v >= 0 /\ 100 * s.v < cutoff * cutoff

\* threshold_energy before it is scaled: the sum of feature_matrix[i*F+i].
RECURSIVE diagonal_sum(_, _)
diagonal_sum(diag, i) ==
    IF i >= DENOISE_FEATURES THEN Float(0)
    ELSE float_add(diag[i + 1], diagonal_sum(diag, i + 1))

\* One more row of the transform multiplied by feature_scale: row r.rank.
scale_row(r) ==
    [rank |-> r.rank + 1, scaled |-> [r.scaled EXCEPT ![r.rank + 1] = @ + 1]]

\* The loop of the branch pca_threshold > 0 without the test i >= 2.
RECURSIVE energy_loop_no_floor(_, _, _, _, _)
energy_loop_no_floor(diag, threshold_energy, i, reduced_energy, r) ==
    IF i >= DENOISE_FEATURES THEN r
    ELSE IF float_ge(float_scale(reduced_energy, 10), threshold_energy) THEN r
    ELSE energy_loop_no_floor(diag, threshold_energy, i + 1,
                              float_add(reduced_energy, diag[i + 1]), scale_row(r))

\* The loop of the branch pca_threshold > 0; threshold_energy in tenths.
RECURSIVE energy_loop(_, _, _, _, _)
energy_loop(diag, threshold_energy, i, reduced_energy, r) ==
    IF i >= DENOISE_FEATURES THEN r
    ELSE IF i >= 2 /\ float_ge(float_scale(reduced_energy, 10), threshold_energy) THEN r
    ELSE energy_loop(diag, threshold_energy, i + 1,
                     float_add(reduced_energy, diag[i + 1]), scale_row(r))

\* The loop of the else branch (pca_threshold <= 0).
RECURSIVE deviation_loop(_, _, _, _)
deviation_loop(diag, pca_threshold, i, r) ==
    IF i >= DENOISE_FEATURES THEN r
    ELSE IF i >= 2 /\ sqrtf_below(diag[i + 1], -pca_threshold) THEN r
    ELSE deviation_loop(diag, pca_threshold, i + 1, scale_row(r))

\* kernel_filter_construct_transform from line 82 on, given the diagonal
\* the eigendecomposition left in feature_matrix: the rank, and how many
\* times each row of the transform was multiplied by feature_scale.
kernel_filter_construct_transform(diag, pca_threshold) ==
    LET r0 == [rank |-> 0, scaled |-> [k \in 1 .. DENOISE_FEATURES |-> 0]]
    IN IF pca_threshold > 0
       THEN energy_loop(diag,
                        float_scale(diagonal_sum(diag, 0), 10 - pca_threshold),
                        0, Float(0), r0)
       ELSE deviation_loop(diag, pca_threshold, 0, r0)

EigenValues == {NaN, Float(-1), Float(0), Float(1), Float(2)}
Diagonals ==
    [1 .. DENOISE_FEATURES -> {Float(0), Float(1)}]
    \cup { [k \in 1 .. DENOISE_FEATURES |-> IF k <= EigenHead THEN head[k] ELSE tail] :
             head \in [1 .. EigenHead -> EigenValues], tail \in EigenValues }
\* pca_threshold in tenths: -2, -1, -0.5, 0, 0.1, 0.5, 1 and 1.5.
PcaThresholds == {-20, -10, -5, 0, 1, 5, 10, 15}

InitFilter ==
    /\ params = [width |-> 0, height |-> 0]
    /\ tile_size = [x |-> 1, y |-> 1]
    /\ tile_order = TILE_BOTTOM_TO_TOP
    /\ num_devices = 1
    /\ preserve_tile_device = FALSE
    /\ background = TRUE
    /\ schedule_denoising = TRUE
    /\ only_denoise = FALSE
    /\ progressive = FALSE
    /\ num_samples = NumSamples
    /\ start_resolution = INT_MAX
    /\ reset
    /\ filter \in [feature_matrix : Diagonals, pca_threshold : PcaThresholds,
                   called : {FALSE}, rank : {0}, scaled : {<<>>}]
    /\ walk = NoWalk

\* A call of the kernel on a pixel whose window gave this diagonal.
ConstructTransform ==
    /\ ~filter.called
    /\ \E r \in {kernel_filter_construct_transform(filter.feature_matrix,
                                                   filter.pca_threshold)} :
          filter' = [filter EXCEPT !.called = TRUE, !.rank = r.rank,
                                   !.scaled = r.scaled]
    /\ UNCHANGED <<config, walk, writing>>
    /\ UNCHANGED <<tiles, tile_stride, render_tiles, denoise_tiles, num_tiles,
                   num_rendered_tiles, sample, state_num_samples,
                   resolution_divider, total_pixel_samples, phases, held,
                   handed, call>>

SpecFilter == InitFilter /\ [][ConstructTransform]_vars

(* ------------------------------------------------------------------ *)
(* hilbert_index_to_pos on its own: the curve of side n walked from     *)
(* index 0 to index n*n - 1.                                            *)
(* ------------------------------------------------------------------ *)
HilbertSizes == { 2 ^ k : k \in 0 .. MaxHilbertLog }

InitWalk ==
    /\ params = [width |-> 0, height |-> 0]
    /\ tile_size = [x |-> 1, y |-> 1]
    /\ tile_order = TILE_HILBERT_SPIRAL
    /\ num_devices = 1
    /\ preserve_tile_device = FALSE
    /\ background = TRUE
    /\ schedule_denoising = FALSE
    /\ only_denoise = FALSE
    /\ progressive = FALSE
    /\ num_samples = NumSamples
    /\ start_resolution = INT_MAX
    /\ reset
    /\ filter = NoFilter
    /\ walk \in [n : HilbertSizes, d : {0}, pos : {<<>>}]

\* for(hilbert_index = 0; hilbert_index < n*n; hilbert_index++): one call.
WalkStep ==
    /\ walk.d < walk.n * walk.n
    /\ walk' = [walk EXCEPT !.d = @ + 1,
                            !.pos = Append(@, hilbert_index_to_pos(walk.n, walk.d))]
    /\ UNCHANGED <<config, filter, writing>>
    /\ UNCHANGED <<tiles, tile_stride, render_tiles, denoise_tiles, num_tiles,
                   num_rendered_tiles, sample, state_num_samples,
                   resolution_divider, total_pixel_samples, phases, held,
                   handed, call>>

SpecWalk == InitWalk /\ [][WalkStep]_vars

(* ------------------------------------------------------------------ *)
(* The start resolution scenario: every image up to MaxSideDivider      *)
(* pixels a side, thin ones included, rendered progressively as one     *)
(* tile from a limited or an unlimited start resolution.                *)
(* ------------------------------------------------------------------ *)
InitDivider ==
    /\ params \in [width : 1 .. MaxSideDivider, height : 1 .. MaxSideDivider]
    /\ tile_size = [x |-> MaxSideDivider, y |-> MaxSideDivider]
    /\ tile_order = TILE_BOTTOM_TO_TOP
    /\ num_devices = 1
    /\ preserve_tile_device = FALSE
    /\ background = TRUE
    /\ schedule_denoising = FALSE
    /\ only_denoise = FALSE
    /\ progressive = TRUE
    /\ num_samples = 1
    /\ start_resolution \in (1 .. MaxStartDivider) \cup {INT_MAX}
    /\ reset
    /\ filter = NoFilter
    /\ walk = NoWalk

SpecDivider == InitDivider /\ [][Next]_vars

(* ------------------------------------------------------------------ *)
(* Callers that write outside the manager's mutex: every call on the    *)
(* manager is atomic, and a caller told to write a tile writes it in a   *)
(* step of its own after return_tile has returned.  Background render    *)
(* with denoising, two workers.                                          *)
(* ------------------------------------------------------------------ *)
InitWriters ==
    /\ params \in [width : 1 .. MaxWidth, height : 1 .. MaxHeight]
    /\ tile_size \in {[x |-> t, y |-> t] : t \in 1 .. MaxTileSize}
    /\ tile_order \in ListOrders
    /\ num_devices = MaxDevices
    /\ preserve_tile_device \in BOOLEAN
    /\ background = TRUE
    /\ schedule_denoising = TRUE
    /\ only_denoise = FALSE
    /\ progressive = FALSE
    /\ num_samples = NumSamples
    /\ start_resolution = INT_MAX
    /\ reset
    /\ filter = NoFilter
    /\ walk = NoWalk

\* The worker of `device` has no write to finish.
Idle(device) == \A w \in writing : w.device # device

\* The worker returns a tile; when return_tile returns true it has the tile
\* to write, and to release afterwards when delete_tile is set.
ReturnTileThenWrite(device, k) ==
    /\ Idle(device)
    /\ return_tile_worker(device, k)
    /\ writing' = IF call'.result /\ ~call'.aborted
                  THEN writing \cup {[device |-> device, index |-> call'.index,
                                      may_delete |-> call'.delete_tile]}
                  ELSE writing

\* The worker finishes the write of a tile, and then releases the tile's
\* buffers when return_tile had set delete_tile.
WriteTile(device) ==
    /\ ~call.aborted
    /\ \E w \in writing :
          /\ w.device = device
          /\ writing' = writing \ {w}
          /\ tiles' = IF w.may_delete
                      THEN [tiles EXCEPT ![w.index].buffers = NULL]
                      ELSE tiles
          /\ call' = [NoCall EXCEPT !.op = "write", !.device = device,
                                    !.index = w.index,
                                    !.delete_tile = w.may_delete,
                                    !.before = tiles[w.index].state]
    /\ UNCHANGED <<config, functions>>
    /\ UNCHANGED <<tile_stride, render_tiles, denoise_tiles, num_tiles,
                   num_rendered_tiles, sample, state_num_samples,
                   resolution_divider, total_pixel_samples, phases, held,
                   handed>>

NextWriters ==
    \/ (writing = {} /\ next)
    \/ \E device \in 0 .. num_devices - 1 : Idle(device) /\ NextTile(device)
    \/ \E device \in 0 .. num_devices - 1 :
          \E k \in 1 .. MaxHeld : ReturnTileThenWrite(device, k)
    \/ \E device \in 0 .. num_devices - 1 : WriteTile(device)

SpecWriters == InitWriters /\ [][NextWriters]_vars

(* ------------------------------------------------------------------ *)
(* The spiral scenario: gen_tiles in background mode with tile_order    *)
(* HILBERT_SPIRAL over images of one block, of 3x3 and of 5x5 blocks,    *)
(* with square and oblong tiles, blocks of 8x8 and of 4x4 tiles.  The    *)
(* spirals of 5x5 blocks are walked with blocks of 4x4 tiles.            *)
(* ------------------------------------------------------------------ *)
SpiralWidths == {1, 8, 9, 17}
SpiralHeights == {1, 2, 9, 17}
SpiralTileSizes == {[x |-> 1, y |-> 1], [x |-> 2, y |-> 1], [x |-> 1, y |-> 3]}
SpiralScenes ==
    [width : SpiralWidths, height : SpiralHeights, tile : SpiralTileSizes]
    \cup {[width |-> 60, height |-> 110, tile |-> [x |-> 13, y |-> 13]],
          [width |-> 70, height |-> 100, tile |-> [x |-> 16, y |-> 16]],
          [width |-> 130, height |-> 20, tile |-> [x |-> 16, y |-> 8]],
          [width |-> 215, height |-> 215, tile |-> [x |-> 13, y |-> 13]],
          [width |-> 250, height |-> 1, tile |-> [x |-> 13, y |-> 13]],
          [width |-> 1, height |-> 250, tile |-> [x |-> 13, y |-> 13]],
          [width |-> 300, height |-> 200, tile |-> [x |-> 32, y |-> 16]]}

InitSpiral ==
    /\ \E scene \in SpiralScenes :
          /\ params = [width |-> scene.width, height |-> scene.height]
          /\ tile_size = scene.tile
    /\ tile_order = TILE_HILBERT_SPIRAL
    /\ num_devices \in 1 .. MaxDevicesOrders
    /\ preserve_tile_device = TRUE
    /\ background = TRUE
    /\ schedule_denoising = FALSE
    /\ only_denoise = FALSE
    /\ progressive = FALSE
    /\ num_samples = NumSamples
    /\ start_resolution = INT_MAX
    /\ reset
    /\ filter = NoFilter
    /\ walk = NoWalk

SpecSpiral == InitSpiral /\ [][next]_vars

(* ------------------------------------------------------------------ *)
(* Vocabulary of the properties.                                        *)
(* ------------------------------------------------------------------ *)
\* Render+denoise mode.
RenderDenoise == schedule_denoising /\ ~only_denoise

\* The tiles at the (up to eight) grid positions around entry i of
\* state.tiles, entry idx standing at grid position
\* (idx % tile_stride, idx / tile_stride).
GridNeighbors(i) ==
    { j \in DOMAIN tiles :
        /\ j # i
        /\ (j % tile_stride) - (i % tile_stride) \in {-1, 0, 1}
        /\ (j \div tile_stride) - (i \div tile_stride) \in {-1, 0, 1} }

Range(seq) == { seq[k] : k \in DOMAIN seq }

\* The entries waiting in some queue.
Queued == UNION { Range(render_tiles[q]) : q \in DOMAIN render_tiles }
          \cup UNION { Range(denoise_tiles[q]) : q \in DOMAIN denoise_tiles }

QueuedTotal == SumLen(render_tiles, DOMAIN render_tiles)
               + SumLen(denoise_tiles, DOMAIN denoise_tiles)

(* ------------------------------------------------------------------ *)
(* Properties.                                                          *)
(* ------------------------------------------------------------------ *)
\* C1: in render+denoise mode a return_tile call puts a tile into DENOISE
\* only if the tile and each of its grid neighbours is RENDERED or later, and
\* a call on a tile whose grid neighbours are all in RENDER enqueues nothing.
C1_Step ==
    (RenderDenoise /\ call'.op = "return_tile") =>
        /\ \A i \in DOMAIN tiles :
              (tiles[i].state # DENOISE /\ tiles'[i].state = DENOISE) =>
                  \A j \in GridNeighbors(i) \cup {i} : tiles'[j].state >= RENDERED
        /\ \A i \in Range(call'.enqueued) :
              \A j \in GridNeighbors(i) \cup {i} : tiles'[j].state >= RENDERED
        /\ ( /\ GridNeighbors(call'.index) # {}
             /\ \A j \in GridNeighbors(call'.index) : tiles[j].state = RENDER )
           => (call'.enqueued = <<>> /\ denoise_tiles' = denoise_tiles)
C1_DenoiseAfterNeighborsRendered == [][C1_Step]_vars

\* C2: in render+denoise mode a return_tile call puts a tile into DONE only
\* if the tile and each of its grid neighbours is DENOISED or later.
C2_Step ==
    (RenderDenoise /\ call'.op = "return_tile") =>
        \A i \in DOMAIN tiles :
            (tiles[i].state # DONE /\ tiles'[i].state = DONE) =>
                \A j \in GridNeighbors(i) \cup {i} : tiles'[j].state >= DENOISED
C2_DoneAfterNeighborsDenoised == [][C2_Step]_vars

\* C3: once the workers have drained every queue and returned every tile,
\* every tile of the grid is DONE, and no call sets a tile to DONE twice.
C3_EveryTileDoneOnce ==
    /\ (tiles # <<>> /\ QueuesEmpty /\ Outstanding = 0) =>
           \A i \in DOMAIN tiles : tiles[i].state = DONE
    /\ \A k1, k2 \in DOMAIN call.done :
           call.done[k1] = call.done[k2] => k1 = k2

\* C4: between two tile generations next_tile returns no entry of
\* state.tiles twice.
C4_Step ==
    (call'.op = "next_tile" /\ call'.result) => call'.index \notin handed
C4_NeverSameTileTwice == [][C4_Step]_vars

\* C5: no two workers hold a reference to the same entry of state.tiles.
C5_OneOutstandingReference ==
    \A d1, d2 \in DOMAIN held :
        d1 # d2 => Range(held[d1]) \cap Range(held[d2]) = {}

\* C6: queue lengths + tiles out with workers + tiles in DONE = num_tiles.
C6_Conservation ==
    QueuedTotal + Outstanding
      + Cardinality({ i \in DOMAIN tiles : tiles[i].state = DONE }) = num_tiles

\* C7: return_tile moves no tile state backward, and next_tile changes no
\* tile state.
C7_Step ==
    /\ call'.op = "return_tile" =>
          \A i \in DOMAIN tiles : tiles'[i].state >= tiles[i].state
    /\ call'.op = "next_tile" =>
          \A i \in DOMAIN tiles : tiles'[i].state = tiles[i].state
C7_StateNeverMovesBackward == [][C7_Step]_vars

\* C7 happens: a return_tile call has moved the returned tile and a
\* neighbour of it forward.
C7_Witness ==
    /\ call.op = "return_tile"
    /\ call.before = DENOISE
    /\ Len(call.done) >= 2

\* C8: in render+denoise mode return_tile on a DENOISE tile leaves it
\* DENOISED or DONE, reports should_write, reports may_delete exactly when
\* the returned tile became DONE, leaves the returned tile's buffers alone,
\* and has deleted and nulled the buffers of every other tile it set to DONE.
C8_Step ==
    (RenderDenoise /\ call'.op = "return_tile" /\ call'.before = DENOISE) =>
        LET index == call'.index IN
        /\ tiles'[index].state \in {DENOISED, DONE}
        /\ call'.result
        /\ call'.delete_tile <=> tiles'[index].state = DONE
        /\ index \notin Range(call'.deleted)
        /\ tiles'[index].buffers = tiles[index].buffers
        /\ \A i \in DOMAIN tiles :
              (i # index /\ tiles[i].state # DONE /\ tiles'[i].state = DONE) =>
                  (i \in Range(call'.deleted) /\ tiles'[i].buffers = NULL)
C8_DenoisedReturn == [][C8_Step]_vars

\* C9: without schedule_denoising and only_denoise, return_tile on a RENDER
\* tile sets it to DONE, reports should_write and may_delete, and changes no
\* other tile and no queue.
C9_Step ==
    ( /\ ~schedule_denoising /\ ~only_denoise
      /\ call'.op = "return_tile" /\ call'.before = RENDER ) =>
        /\ tiles' = [tiles EXCEPT ![call'.index].state = DONE]
        /\ call'.result /\ call'.delete_tile
        /\ render_tiles' = render_tiles
        /\ denoise_tiles' = denoise_tiles
C9_RenderOnlyReturn == [][C9_Step]_vars

\* C9 happens: a RENDER tile was returned without denoising while other
\* tiles still wait in a render queue.
C9_Witness ==
    /\ ~schedule_denoising /\ ~only_denoise
    /\ call.op = "return_tile" /\ call.before = RENDER
    /\ tiles[call.index].state = DONE
    /\ \E q \in DOMAIN render_tiles : render_tiles[q] # <<>>
    /\ \E i \in DOMAIN tiles : tiles[i].state = RENDER

\* C10: in denoise-only mode a tile generation leaves every tile in DENOISE
\* and on a denoise queue, and return_tile on a DENOISE tile sets it to DONE,
\* reports should_write and not may_delete, and changes nothing else.
C10_Step ==
    /\ (only_denoise /\ call'.op = "next" /\ call'.result) =>
          /\ \A i \in DOMAIN tiles' : tiles'[i].state = DENOISE
          /\ \A i \in DOMAIN tiles' :
                \E q \in DOMAIN denoise_tiles' : i \in Range(denoise_tiles'[q])
          /\ \A q \in DOMAIN render_tiles' : render_tiles'[q] = <<>>
    /\ (only_denoise /\ call'.op = "return_tile" /\ call'.before = DENOISE) =>
          /\ tiles' = [tiles EXCEPT ![call'.index].state = DONE]
          /\ call'.result /\ ~call'.delete_tile
          /\ call'.deleted = <<>>
          /\ denoise_tiles' = denoise_tiles
AllRenderedReturned ==
    tiles # <<>> /\ \A i \in DOMAIN tiles : tiles[i].state >= RENDERED

\* How often entry i stands in a denoise queue or is out with a worker.
DenoisePending(i) ==
    Cardinality({ <<q, k>> \in (DOMAIN denoise_tiles) \X (1 .. num_tiles) :
                    k <= Len(denoise_tiles[q]) /\ denoise_tiles[q][k] = i })
    + Cardinality({ <<d, k>> \in (DOMAIN held) \X (1 .. num_tiles) :
                    k <= Len(held[d]) /\ held[d][k] = i })

\* C11 as stated: in the 3x3 grid, once all 9 tiles have been rendered and
\* returned, exactly one tile has been enqueued for denoising, the center
\* tile (1,1), entry 4 of state.tiles.
C11_OnlyCenterEnqueued ==
    AllRenderedReturned =>
        { i \in DOMAIN tiles : tiles[i].state >= DENOISE } = {4}

\* C11: in the 3x3 grid, once all 9 tiles have been rendered and returned,
\* in any order, every one of the 9 tiles has been enqueued for denoising
\* (a neighbour outside the grid counts as satisfied), and a tile in DENOISE
\* stands exactly once in the denoise queue or is out with the worker.
C11_AllNineEnqueued ==
    AllRenderedReturned =>
        /\ num_tiles = 9
        /\ \A i \in DOMAIN tiles : tiles[i].state >= DENOISE
        /\ \A i \in DOMAIN tiles :
              tiles[i].state = DENOISE => DenoisePending(i) = 1

\* C11 happens: the return of the last rendered tile has left all 9 tiles
\* in the denoise queue.
C11_Witness ==
    /\ AllRenderedReturned
    /\ call.op = "return_tile" /\ call.before = RENDER
    /\ Len(denoise_tiles[1]) = 9
    /\ tiles[4].state = DENOISE

\* The queue (1-based position in the vectors) a next_tile call of physical
\* device d is served from.
LogicalQueue(d) == (IF preserve_tile_device THEN d ELSE 0) + 1

\* C12: a next_tile call whose logical device has a non-empty denoise queue
\* returns the front of that denoise queue and leaves the render queues
\* untouched; a call that takes a render tile found that denoise queue empty.
C12_Step ==
    (call'.op = "next_tile" /\ LogicalQueue(call'.device) <= Len(render_tiles)) =>
        LET q == LogicalQueue(call'.device) IN
        /\ denoise_tiles[q] # <<>> =>
              /\ call'.result
              /\ call'.index = Head(denoise_tiles[q])
              /\ denoise_tiles' = [denoise_tiles EXCEPT ![q] = Tail(@)]
              /\ render_tiles' = render_tiles
        /\ render_tiles' # render_tiles =>
              /\ denoise_tiles[q] = <<>>
              /\ denoise_tiles' = denoise_tiles
              /\ call'.result
              /\ call'.index = Head(render_tiles[q])
              /\ render_tiles' = [render_tiles EXCEPT ![q] = Tail(@)]
C12_DenoiseQueueFirst == [][C12_Step]_vars

\* C12 happens: next_tile has handed out a tile to denoise while tiles to
\* render wait in the render queue of the same logical device.
C12_Witness ==
    /\ ~only_denoise
    /\ call.op = "next_tile" /\ call.result
    /\ call.before = DENOISE
    /\ LogicalQueue(call.device) <= Len(render_tiles)
    /\ render_tiles[LogicalQueue(call.device)] # <<>>

\* C13: next_tile(device) touches the queues of one logical device only,
\* queue 0 without preserve_tile_device and queue `device` with it; with
\* preserve_tile_device the tile it returns has device = `device`, and a call
\* for a device without queues returns no tile and changes nothing.
C13_Step ==
    call'.op = "next_tile" =>
        LET q == LogicalQueue(call'.device) IN
        /\ (~preserve_tile_device) => q = 1
        /\ preserve_tile_device => q = call'.device + 1
        /\ \A p \in DOMAIN render_tiles :
              p # q => /\ render_tiles'[p] = render_tiles[p]
                       /\ denoise_tiles'[p] = denoise_tiles[p]
        /\ call'.result =>
              /\ q <= Len(render_tiles)
              /\ call'.index = Head(denoise_tiles[q] \o render_tiles[q])
        /\ (preserve_tile_device /\ call'.result) =>
              tiles[call'.index].device = call'.device
        /\ q > Len(render_tiles) =>
              /\ ~call'.result
              /\ UNCHANGED <<tiles, render_tiles, denoise_tiles,
                             num_rendered_tiles, held>>
C13_OneLogicalDevice == [][C13_Step]_vars

\* The slices of gen_tiles(sliced = true) at the current resolution: their
\* number, and the first row and the height of slice `slice`.
slice_num ==
    IF ~background
    THEN min(image_height(resolution_divider), num_logical_devices) ELSE 1
slice_y(slice) == (image_height(resolution_divider) \div slice_num) * slice
slice_h(slice) ==
    IF slice = slice_num - 1
    THEN image_height(resolution_divider)
           - slice * (image_height(resolution_divider) \div slice_num)
    ELSE image_height(resolution_divider) \div slice_num

\* C14: in viewport mode with preserve_tile_device, the rectangle of a tile
\* next_tile hands to device s lies in slice s; with a 100x40 image and two
\* devices, device 0 gets y < 20 and device 1 gets y >= 20.
C14_Step ==
    ( /\ ~background /\ preserve_tile_device
      /\ call'.op = "next_tile" /\ call'.result ) =>
        LET t == tiles[call'.index]
            s == call'.device
        IN /\ t.y >= slice_y(s)
           /\ t.y + t.h <= slice_y(s) + slice_h(s)
C14_TilesInOwnSlice == [][C14_Step]_vars

\* Pixel (px, py) of the effective image lies in the rectangle of tile t.
InTile(t, px, py) ==
    /\ t.x <= px /\ px < t.x + t.w
    /\ t.y <= py /\ py < t.y + t.h

\* C15: after set_tiles() state.tiles holds tile_w*tile_h tiles, each with
\* w > 0 and h > 0 and inside the effective image, and every pixel of the
\* effective image belongs to exactly one tile.
C15_TilesPartitionImage ==
    tiles # <<>> =>
        LET image_w == image_width(resolution_divider)
            image_h == image_height(resolution_divider)
        IN /\ Cardinality(DOMAIN tiles)
                = tile_count(tile_size.x, image_w) * tile_count(tile_size.y, image_h)
           /\ \A i \in DOMAIN tiles :
                 /\ tiles[i].w > 0 /\ tiles[i].h > 0
                 /\ tiles[i].x >= 0 /\ tiles[i].x + tiles[i].w <= image_w
                 /\ tiles[i].y >= 0 /\ tiles[i].y + tiles[i].h <= image_h
           /\ \A px \in 0 .. image_w - 1 : \A py \in 0 .. image_h - 1 :
                 Cardinality({ i \in DOMAIN tiles : InTile(tiles[i], px, py) }) = 1

\* Tile a comes strictly before tile b in order `order`: CENTER by the
\* squared distance of the tile center to the image center, LEFT_TO_RIGHT and
\* RIGHT_TO_LEFT by x (ascending, descending) and then y ascending,
\* TOP_TO_BOTTOM and BOTTOM_TO_TOP by y (descending, ascending) and then x
\* ascending.
Before(order, a, b) ==
    LET center == [x |-> image_width(resolution_divider) \div 2,
                   y |-> image_height(resolution_divider) \div 2]
    IN CASE order = TILE_CENTER -> CenterDist(center, a) < CenterDist(center, b)
         [] order = TILE_LEFT_TO_RIGHT ->
               a.x < b.x \/ (a.x = b.x /\ a.y < b.y)
         [] order = TILE_RIGHT_TO_LEFT ->
               a.x > b.x \/ (a.x = b.x /\ a.y < b.y)
         [] order = TILE_TOP_TO_BOTTOM ->
               a.y > b.y \/ (a.y = b.y /\ a.x < b.x)
         [] OTHER ->
               a.y < b.y \/ (a.y = b.y /\ a.x < b.x)

\* C16: in background mode a render tile next_tile dequeues comes, in the
\* tile_order order, before or level with every tile still waiting in the
\* same queue, whichever queue it is.
C16_Step ==
    ( /\ background
      /\ call'.op = "next_tile" /\ call'.result /\ call'.before = RENDER ) =>
        \A k \in DOMAIN render_tiles'[LogicalQueue(call'.device)] :
            ~Before(tile_order,
                    tiles[render_tiles'[LogicalQueue(call'.device)][k]],
                    tiles[call'.index])
C16_DequeueInTileOrder == [][C16_Step]_vars

\* C17: next() returns false exactly when, at the call, resolution_divider
\* is 1 and sample + state.num_samples has reached the end sample, and then
\* it changes nothing; otherwise it returns true and has generated the tiles
\* of the new phase, every queued tile in its initial state.
C17_Step ==
    call'.op = "next" =>
        LET end_sample == IF range_num_samples = -1 THEN num_samples
                          ELSE range_start_sample + range_num_samples
            finished == /\ resolution_divider = 1
                        /\ sample + state_num_samples >= end_sample
        IN /\ call'.result <=> ~finished
           /\ finished =>
                 UNCHANGED <<sample, state_num_samples, resolution_divider,
                             tiles, tile_stride, render_tiles, denoise_tiles,
                             num_tiles, num_rendered_tiles>>
           /\ ~finished =>
                 /\ num_tiles' =
                       tile_count(tile_size.x, image_width(resolution_divider'))
                       * tile_count(tile_size.y, image_height(resolution_divider'))
                 /\ DOMAIN tiles' = 0 .. num_tiles' - 1
                 /\ Queued' # {}
                 /\ \A i \in Queued' :
                       /\ tiles'[i].state = IF only_denoise THEN DENOISE ELSE RENDER
                       /\ tiles'[i].buffers = NULL
C17_NextFalseIffDone == [][C17_Step]_vars

\* C17 happens: after preview phases above divider 1 and the phases at
\* divider 1, next() has returned false.
C17_Witness ==
    /\ call.op = "next" /\ ~call.result
    /\ Len(phases) >= 3
    /\ phases[1].divider > 1

\* The progressive staging scenario: start_resolution 64, a 512x512 image.
StagingScenario ==
    /\ progressive
    /\ start_resolution = 64
    /\ params = [width |-> 512, height |-> 512]

\* n phases of one sample each at divider 1.
FinalPhases(n) == [k \in 1 .. n |-> [divider |-> 1, samples |-> 1]]

\* seq is the beginning of whole.
IsPrefix(seq, whole) ==
    Len(seq) <= Len(whole) /\ seq = SubSeq(whole, 1, Len(seq))

\* C18 as stated: reset leaves divider 8, the phases next() starts run at
\* the dividers 8, 4, 2, 1 with one sample each and then num_samples samples
\* at divider 1, and done() holds after them.
C18_PhasesFromEight ==
    StagingScenario =>
        LET expected == <<[divider |-> 8, samples |-> 1],
                          [divider |-> 4, samples |-> 1],
                          [divider |-> 2, samples |-> 1]>>
                        \o FinalPhases(num_samples)
        IN /\ phases = <<>> => resolution_divider = 8
           /\ IsPrefix(phases, expected)

\* C18: reset leaves divider 8, never rendered itself; the phases next()
\* starts run at the dividers 4, 2, 1 with one sample each, the phase at
\* divider 1 being the first of num_samples one-sample phases at divider 1,
\* and done() holds exactly after the last of them.
C18_PhasesFromFour ==
    StagingScenario =>
        LET expected == <<[divider |-> 4, samples |-> 1],
                          [divider |-> 2, samples |-> 1]>>
                        \o FinalPhases(num_samples)
        IN /\ phases = <<>> => resolution_divider = 8
           /\ IsPrefix(phases, expected)
           /\ phases # <<>> =>
                 /\ resolution_divider = phases[Len(phases)].divider
                 /\ state_num_samples = phases[Len(phases)].samples
           /\ done <=> phases = expected

\* C18 happens: the scenario has run its preview phases and its
\* num_samples phases at divider 1, and next() has returned false.
C18_Witness ==
    /\ StagingScenario
    /\ num_samples = MaxSamples
    /\ Len(phases) = 2 + num_samples
    /\ call.op = "next" /\ ~call.result

\* The pixel-samples of the first n phases started since reset: image width
\* x image height at the phase's divider x samples of the phase.
RECURSIVE PixelSamples(_)
PixelSamples(n) ==
    IF n = 0 THEN 0
    ELSE PixelSamples(n - 1)
         + image_width(phases[n].divider) * image_height(phases[n].divider)
             * phases[n].samples

\* C19: without schedule_denoising and only_denoise, when the phases started
\* by next() since reset have reached done(), their pixel-samples sum to
\* state.total_pixel_samples as set_samples computed it.
C19_PixelSamplesAccounted ==
    (~schedule_denoising /\ ~only_denoise /\ done) =>
        PixelSamples(Len(phases)) = total_pixel_samples

\* return_tile has no transition for a tile in this state.
InvalidTransition(st) ==
    st \in {RENDERED, DENOISED, DONE} \/ (st = RENDER /\ only_denoise)

\* C20: return_tile on a tile in RENDERED, DENOISED or DONE (or in RENDER
\* with only_denoise) ends in an error and not in a normal result, and
\* changes no tile, no queue and no buffer.
C20_Step ==
    (call'.op = "return_tile" /\ InvalidTransition(call'.before)) =>
        /\ call'.aborted
        /\ ~call'.result
        /\ tiles' = tiles
        /\ render_tiles' = render_tiles
        /\ denoise_tiles' = denoise_tiles
C20_InvalidTransitionReported == [][C20_Step]_vars

\* The effective image has no pixel.
EmptyRegion == params.width = 0 \/ params.height = 0

\* C21: with a zero-sized image set_tiles yields no tile: num_tiles is 0,
\* every queue is empty and next_tile hands out no tile.
C21_EmptyRegionNoTiles ==
    EmptyRegion =>
        /\ num_tiles = 0
        /\ tiles = <<>>
        /\ QueuesEmpty
        /\ call.op = "next_tile" => ~call.result

\* C22: set_tiles with tile_order HILBERT_SPIRAL in sliced distribution
\* (background false) ends in a fatal error, and no tile and no queue entry
\* has been generated.
C22_Step ==
    (call'.op = "next" /\ ~done /\ tile_order = TILE_HILBERT_SPIRAL /\ ~background) =>
        /\ call'.aborted
        /\ tiles' = tiles
        /\ render_tiles' = render_tiles
        /\ denoise_tiles' = denoise_tiles
        /\ num_tiles' = num_tiles
C22_HilbertSlicedFatal == [][C22_Step]_vars

\* C23: free_device() with schedule_denoising leaves every tile's buffers
\* null; without it, it leaves every tile as it was; in both cases the tile
\* states, the queues, sample and resolution_divider are unchanged.
C23_Step ==
    call'.op = "free_device" =>
        /\ DOMAIN tiles' = DOMAIN tiles
        /\ schedule_denoising => \A i \in DOMAIN tiles' : tiles'[i].buffers = NULL
        /\ ~schedule_denoising => tiles' = tiles
        /\ \A i \in DOMAIN tiles :
              tiles' [i] = [tiles[i] EXCEPT !.buffers = tiles'[i].buffers]
        /\ UNCHANGED <<tile_stride, render_tiles, denoise_tiles, num_tiles,
                       num_rendered_tiles, sample, state_num_samples,
                       resolution_divider>>
C23_FreeDevice == [][C23_Step]_vars

\* C23 happens: free_device() has released the buffers of several tiles of a
\* render with denoising scheduled, one of them rendered and waiting for its
\* neighbours.
C23_Witness ==
    /\ call.op = "free_device"
    /\ schedule_denoising
    /\ Len(call.deleted) >= 2
    /\ \E i \in DOMAIN tiles : tiles[i].state = RENDERED

\* C24: whatever the eigenvalues on the diagonal and whatever pca_threshold,
\* the rank returned is at least 2 and at most DENOISE_FEATURES, and the rows
\* 0 .. rank-1 of the transform, and no others, were multiplied by the
\* feature scale, once each.
C24_RankBounds ==
    filter.called =>
        /\ 2 <= filter.rank
        /\ filter.rank <= DENOISE_FEATURES
        /\ \A k \in 1 .. DENOISE_FEATURES :
              filter.scaled[k] = IF k <= filter.rank THEN 1 ELSE 0

\* C24 happens: the energy threshold has cut the rank strictly between its
\* bounds, on a diagonal where the first two eigenvalues alone did not reach
\* the threshold.
C24_Witness ==
    /\ filter.called
    /\ filter.pca_threshold > 0
    /\ filter.rank > 2
    /\ filter.rank < DENOISE_FEATURES

\* The Gramian was all-zero: every eigenvalue on the diagonal is 0.
ZeroGramian ==
    \A k \in 1 .. DENOISE_FEATURES : filter.feature_matrix[k] = Float(0)

\* C25: for an all-zero Gramian the rank returned is 2, whatever
\* pca_threshold is: positive, zero or negative.
C25_ZeroGramianRankTwo ==
    (filter.called /\ ZeroGramian) => filter.rank = 2

\* C26: hilbert_index_to_pos(H, .) maps the indices 0 .. H*H-1 one-to-one
\* onto {0..H-1} x {0..H-1}: every position it returns lies in the square,
\* no two indices share a position, and the whole walk hits every position.
C26_HilbertBijection ==
    /\ \A k \in DOMAIN walk.pos :
          /\ walk.pos[k].x \in 0 .. walk.n - 1
          /\ walk.pos[k].y \in 0 .. walk.n - 1
    /\ \A j, k \in DOMAIN walk.pos : walk.pos[j] = walk.pos[k] => j = k
    /\ walk.d = walk.n * walk.n =>
          \A x, y \in 0 .. walk.n - 1 :
             \E k \in DOMAIN walk.pos : walk.pos[k] = [x |-> x, y |-> y]

\* C26 happens: the curve of side 8 has been walked to its last index.
C26_Witness ==
    /\ walk.n = 8
    /\ walk.d = 64
    /\ Len(walk.pos) = 64

\* The single block scenario: a 32x32 image with 4x4 tiles in background
\* mode, hilbert_size 8.
SingleBlock ==
    /\ tile_order = TILE_HILBERT_SPIRAL
    /\ background
    /\ params = [width |-> 32, height |-> 32]
    /\ tile_size = [x |-> 4, y |-> 4]

\* The reverse of a sequence.
Reverse(seq) == [k \in 1 .. Len(seq) |-> seq[Len(seq) + 1 - k]]

\* The indices in the order gen_tiles generated them, read off the queues a
\* tile generation has just filled: gen_tiles fills the queues one after the
\* other and pushes each index on the front of its queue.
RECURSIVE EmittedUpTo(_, _)
EmittedUpTo(queues, q) ==
    IF q = 0 THEN <<>> ELSE EmittedUpTo(queues, q - 1) \o Reverse(queues[q])

\* The grid position of the k-th tile generated (k from 0).
EmittedPos(ts, queues, k) ==
    LET t == ts[EmittedUpTo(queues, Len(queues))[k + 1]]
    IN [x |-> t.x \div tile_size.x, y |-> t.y \div tile_size.y]

\* C27 as stated: in the single block scenario the k-th tile generated is at
\* grid position hilbert_index_to_pos(8, k).
C27_StepAsStated ==
    (call'.op = "next" /\ call'.result /\ SingleBlock) =>
        \A k \in 0 .. 63 :
            EmittedPos(tiles', render_tiles', k) = hilbert_index_to_pos(8, k)
C27_EmittedAlongCurve == [][C27_StepAsStated]_vars

\* C27: in the single block scenario gen_tiles generates 64 tiles, the k-th
\* at the grid position hilbert_index_to_pos(8, k) with x and y exchanged
\* (the rotation for prev_dir = dir = UP), each next to the one before it.
C27_Step ==
    (call'.op = "next" /\ call'.result /\ SingleBlock) =>
        /\ Len(EmittedUpTo(render_tiles', Len(render_tiles'))) = 64
        /\ \A k \in 0 .. 63 :
              EmittedPos(tiles', render_tiles', k) =
                 [x |-> hilbert_index_to_pos(8, k).y,
                  y |-> hilbert_index_to_pos(8, k).x]
        /\ \A k \in 1 .. 63 :
              LET a == EmittedPos(tiles', render_tiles', k - 1)
                  b == EmittedPos(tiles', render_tiles', k)
              IN (a.x - b.x) * (a.x - b.x) + (a.y - b.y) * (a.y - b.y) = 1
C27_EmittedAlongTransposedCurve == [][C27_Step]_vars

\* C27 happens: next() has generated the 64 tiles of the single block.
C27_Witness ==
    /\ SingleBlock
    /\ call.op = "next" /\ call.result
    /\ num_tiles = 64
    /\ QueuedTotal = 64

\* Tile a comes before tile b in the row-major order of the grid.
RowMajorBefore(ts, a, b) ==
    ts[a].y < ts[b].y \/ (ts[a].y = ts[b].y /\ ts[a].x < ts[b].x)

\* seq lists tiles in row-major order.
RowMajor(ts, seq) ==
    \A j, k \in DOMAIN seq : j < k => RowMajorBefore(ts, seq[j], seq[k])

\* C28 as stated: the tiles one return_tile call enqueues for denoising are
\* appended to the queue in row-major order, the returned tile in its place
\* among its neighbours.
C28_StepAsStated ==
    (call'.op = "return_tile" /\ ~call'.aborted /\ call'.before = RENDER) =>
        /\ RowMajor(tiles, call'.enqueued)
        /\ denoise_tiles'[1] = denoise_tiles[1] \o call'.enqueued
C28_EnqueuedRowMajor == [][C28_StepAsStated]_vars

\* C28: the tiles one return_tile call enqueues for denoising are appended
\* to the queue with the neighbours of the returned tile in row-major order
\* and the returned tile itself, when it is eligible, after all of them.
C28_Step ==
    (call'.op = "return_tile" /\ ~call'.aborted /\ call'.before = RENDER) =>
        LET neighbours == SelectSeq(call'.enqueued, LAMBDA i : i # call'.index)
        IN /\ RowMajor(tiles, neighbours)
           /\ call'.enqueued \in {neighbours, Append(neighbours, call'.index)}
           /\ denoise_tiles'[1] = denoise_tiles[1] \o call'.enqueued
C28_EnqueuedNeighboursThenSelf == [][C28_Step]_vars

\* C28 happens: one return_tile call has enqueued the returned tile together
\* with neighbours on both sides of it in the row-major order.
C28_Witness ==
    /\ call.op = "return_tile"
    /\ Len(call.enqueued) >= 3
    /\ \E j, k \in DOMAIN call.enqueued :
          /\ RowMajorBefore(tiles, call.enqueued[j], call.index)
          /\ RowMajorBefore(tiles, call.index, call.enqueued[k])
    /\ call.enqueued[Len(call.enqueued)] = call.index

\* 2^k for the smallest k >= 0 at which the image, each side shifted right
\* by k and never below `least`, has at most start_resolution^2 pixels.
SmallestDivider(least) ==
    LET fits(k) == max(least, params.width \div 2 ^ k)
                   * max(least, params.height \div 2 ^ k)
                   <= start_resolution * start_resolution
    IN 2 ^ (CHOOSE k \in 0 .. 31 : fits(k) /\ \A j \in 0 .. k - 1 : ~fits(j))

\* C29 as stated: reset leaves the divider 2^k for the smallest k with
\* (w>>k) * (h>>k) <= start_resolution^2, and 1 when start_resolution is
\* INT_MAX.
C29_DividerOfShiftedSides ==
    phases = <<>> =>
        resolution_divider =
            IF start_resolution = INT_MAX THEN 1 ELSE SmallestDivider(0)

\* C29: reset leaves the divider 2^k for the smallest k with
\* max(1, w>>k) * max(1, h>>k) <= start_resolution^2, and 1 when
\* start_resolution is INT_MAX.
C29_DividerOfClampedSides ==
    phases = <<>> =>
        resolution_divider =
            IF start_resolution = INT_MAX THEN 1 ELSE SmallestDivider(1)

\* C29 happens: reset has computed a divider above 2 for an image one pixel
\* wide, whose width reaches 0 at the first shift.
C29_Witness ==
    /\ phases = <<>>
    /\ call = NoCall
    /\ params.width = 1
    /\ params.height = MaxSideDivider
    /\ start_resolution = 1
    /\ resolution_divider > 2

\* C30: a tile generation in background mode with a list order leaves
\* num = min(image_h, num_logical_devices) render queues; with
\* c = ceil(tile_w*tile_h / num), queue k holds exactly the tiles of
\* row-major index k*c .. min((k+1)*c, total) - 1, each once and each with
\* device field k, and no index was pushed past the last queue.
C30_Step ==
    (call'.op = "next" /\ call'.result /\ background
       /\ tile_order # TILE_HILBERT_SPIRAL /\ ~only_denoise) =>
        LET total == tile_count(tile_size.x, image_width(resolution_divider'))
                     * tile_count(tile_size.y, image_height(resolution_divider'))
            num == min(image_height(resolution_divider'), num_logical_devices)
            c == (total + num - 1) \div num
        IN /\ num_tiles' = total
           /\ DOMAIN tiles' = 0 .. total - 1
           /\ Len(render_tiles') = num
           /\ \A k \in 0 .. num - 1 :
                 /\ Range(render_tiles'[k + 1]) =
                       { i \in 0 .. total - 1 : k * c <= i /\ i < min((k + 1) * c, total) }
                 /\ Len(render_tiles'[k + 1]) = Cardinality(Range(render_tiles'[k + 1]))
                 /\ \A i \in Range(render_tiles'[k + 1]) :
                       tiles'[i].device = k /\ tiles'[i].index = i
           /\ QueuedTotal' = total
           /\ \A fresh \in FreshTiles(resolution_divider') :
                 ~gen_tiles(FALSE, resolution_divider', fresh).overrun
C30_ContiguousChunks == [][C30_Step]_vars

\* C30 happens: a tile generation has left two queues, the last of them not
\* empty and shorter than the first (9 tiles as 5 and 4).
C30_Witness ==
    /\ call.op = "next" /\ call.result
    /\ background /\ ~only_denoise
    /\ num_tiles = 9
    /\ Len(render_tiles) = 2
    /\ Len(render_tiles[1]) = 5
    /\ Len(render_tiles[2]) = 4

\* C31: once tiles are generated, every entry i of state.tiles has
\* index = i and lies at the grid position i designates:
\* i = (y / tile_size.y) * tile_stride + (x / tile_size.x).
C31_TilesIndexedByGridPosition ==
    \A i \in DOMAIN tiles :
        /\ tiles[i].index = i
        /\ i = (tiles[i].y \div tile_size.y) * tile_stride
               + (tiles[i].x \div tile_size.x)

\* C32: queues and states agree.  Every index in a render queue designates
\* a tile in state RENDER, every index in a denoise queue a tile in state
\* DENOISE, and no index occurs twice over all the queues; so no tile in
\* state RENDERED, DENOISED or DONE is referenced by a queue.
C32_QueuesAgreeWithStates ==
    /\ \A q \in DOMAIN render_tiles : \A k \in DOMAIN render_tiles[q] :
          /\ render_tiles[q][k] \in DOMAIN tiles
          /\ tiles[render_tiles[q][k]].state = RENDER
    /\ \A q \in DOMAIN denoise_tiles : \A k \in DOMAIN denoise_tiles[q] :
          /\ denoise_tiles[q][k] \in DOMAIN tiles
          /\ tiles[denoise_tiles[q][k]].state = DENOISE
    /\ QueuedTotal = Cardinality(Queued)
    /\ \A i \in DOMAIN tiles :
          tiles[i].state \in {RENDERED, DENOISED, DONE} => i \notin Queued

\* C33: in render+denoise mode, while a tile is in state DENOISE (in a
\* denoise queue or with a worker), neither the tile nor any of its in-grid
\* neighbours is DONE: none of their buffers has been released.
C33_DenoiseInputsKept ==
    RenderDenoise =>
        \A i \in DOMAIN tiles :
            tiles[i].state = DENOISE =>
                \A j \in GridNeighbors(i) \cup {i} : tiles[j].state # DONE

\* The phase is complete: tiles were generated, every queue is empty and
\* every tile handed out has been returned.
PhaseComplete ==
    /\ tiles # <<>>
    /\ QueuesEmpty
    /\ Outstanding = 0
    /\ ~call.aborted

\* The ways return_tile(index) releases the buffer of entry i: `own` when
\* the call is i's own and reports delete_tile, `manager` when the call
\* deleted the buffers of i and nulled the pointer.
ReleasedOwn(c, i) == c.index = i /\ c.delete_tile
ReleasedByManager(c, i) == \E k \in DOMAIN c.deleted : c.deleted[k] = i

\* C34 as a step: a return_tile call in render+denoise mode releases a
\* buffer only of a tile it moves to DONE, in one way only and once, the
\* manager only the buffers of tiles other than the one returned; every
\* tile it moves to DONE is released.
C34_Step ==
    (RenderDenoise /\ call'.op = "return_tile" /\ ~call'.aborted) =>
        /\ \A i \in DOMAIN tiles :
              /\ (ReleasedOwn(call', i) \/ ReleasedByManager(call', i)) =>
                    /\ tiles[i].state # DONE
                    /\ tiles'[i].state = DONE
              /\ (tiles[i].state # DONE /\ tiles'[i].state = DONE) =>
                    (ReleasedOwn(call', i) \/ ReleasedByManager(call', i))
              /\ ~(ReleasedOwn(call', i) /\ ReleasedByManager(call', i))
              /\ ReleasedByManager(call', i) =>
                    /\ i # call'.index
                    /\ i \in GridNeighbors(call'.index)
                    /\ tiles[i].buffers # NULL
                    /\ tiles'[i].buffers = NULL
              /\ tiles[i].state = DONE => tiles'[i].state = DONE
        /\ \A j, k \in DOMAIN call'.deleted :
              call'.deleted[j] = call'.deleted[k] => j = k

\* C34: in render+denoise mode every tile's buffer is released exactly once
\* over a complete phase, either by its own return_tile call reporting
\* delete_tile or by the manager during the return_tile call of a
\* neighbour: every release is a tile's one move to DONE, and when the phase
\* is complete every tile is DONE.
C34_ReleasedExactlyOnce ==
    /\ [][C34_Step]_vars
    /\ []((RenderDenoise /\ PhaseComplete) =>
             \A i \in DOMAIN tiles : tiles[i].state = DONE)

\* C35: with callers that write after return_tile has returned, a tile
\* return_tile told its caller to write and not to delete keeps its buffer
\* until the caller's write has completed: the manager does not release it
\* during the return_tile call of a neighbour.
C35_BufferKeptUntilWritten ==
    RenderDenoise =>
        \A w \in writing : ~w.may_delete => tiles[w.index].buffers # NULL

\* C36: whenever every render and denoise queue is empty and every tile
\* handed out by next_tile has been returned, every tile is DONE: none is
\* left in RENDER, RENDERED, DENOISE or DENOISED.
C36_NoTileStranded ==
    (QueuesEmpty /\ Outstanding = 0 /\ ~call.aborted) =>
        \A i \in DOMAIN tiles : tiles[i].state \notin {RENDER, RENDERED, DENOISE, DENOISED}

\* The side of the spiral in blocks: max(blocks_x, blocks_y) | 1.
SpiralSide(resolution) ==
    LET hilbert_size == IF max(tile_size.x, tile_size.y) <= 12 THEN 8 ELSE 4
        m == max(tile_count(tile_size.x * hilbert_size, image_width(resolution)),
                 tile_count(tile_size.y * hilbert_size, image_height(resolution)))
    IN IF m % 2 = 1 THEN m ELSE m + 1

\* C37: a tile generation in background mode with tile_order HILBERT_SPIRAL
\* ends; its spiral comes to each of the n x n blocks once and to the center
\* block last; it generates every index 0 .. tile_w*tile_h - 1 once and
\* leaves it on one queue, none pushed past the last queue.
C37_Step ==
    (call'.op = "next" /\ call'.result /\ background
       /\ tile_order = TILE_HILBERT_SPIRAL) =>
        LET total == tile_count(tile_size.x, image_width(resolution_divider'))
                     * tile_count(tile_size.y, image_height(resolution_divider'))
            n == SpiralSide(resolution_divider')
            marker == Tile(-1, 0, 0, 0, 0, 0, RENDER, NULL)
        IN \A g \in {gen_tiles(FALSE, resolution_divider', marker)} :
           /\ Len(g.blocks) = n * n
           /\ \A k \in DOMAIN g.blocks :
                 /\ g.blocks[k].x \in 0 .. n - 1
                 /\ g.blocks[k].y \in 0 .. n - 1
           /\ \A j, k \in DOMAIN g.blocks : g.blocks[j] = g.blocks[k] => j = k
           /\ g.blocks[Len(g.blocks)] = [x |-> (n - 1) \div 2, y |-> (n - 1) \div 2]
           /\ Len(g.emitted) = total
           /\ Range(g.emitted) = 0 .. total - 1
           /\ ~g.overrun
           /\ \A i \in DOMAIN g.tiles : g.tiles[i] # marker
           /\ num_tiles' = total
           /\ DOMAIN tiles' = 0 .. total - 1
           /\ \A i \in DOMAIN tiles' : tiles'[i].index = i
           /\ Len(render_tiles') = min(image_height(resolution_divider'),
                                       num_logical_devices)
           /\ QueuedTotal' = total
           /\ Queued' = 0 .. total - 1
           /\ \A q \in DOMAIN render_tiles' : \A i \in Range(render_tiles'[q]) :
                 tiles'[i].device = q - 1
C37_SpiralCoversGrid == [][C37_Step]_vars

\* C37 happens: next() has generated the tiles of a 215x215 image of 13x13
\* tiles, a spiral of 5x5 blocks of 4x4 tiles, for three devices.
C37_Witness ==
    /\ tile_order = TILE_HILBERT_SPIRAL /\ background
    /\ params = [width |-> 215, height |-> 215]
    /\ tile_size = [x |-> 13, y |-> 13]
    /\ SpiralSide(resolution_divider) = 5
    /\ num_devices = 3
    /\ call.op = "next" /\ call.result
    /\ num_tiles = 289
    /\ Len(render_tiles) = 3
    /\ QueuedTotal = 289

====
